---- MODULE Spec2Model ----
(***************************************************************************)
(* Verification models of the teaching examples of the HK-WebD repository. *)
(* Every example is a program of its own (the repository has no shared     *)
(* runtime), so the module holds one group of variables and one            *)
(* specification per example; the actions of an example leave the          *)
(* variables of the other examples unchanged.                              *)
(*                                                                         *)
(*   SpecAuth          token-based authentication server (README.md 7.)    *)
(*   SpecDebounce      the useDebounce hook, SpecDebounceFair with the     *)
(*                     fairness of the browser's timers                    *)
(*   SpecBoundary      the ErrorBoundary class and its demo App            *)
(*   SpecCounters      the counter with prop drilling, Context and Recoil  *)
(*   SpecFetch         the useFetch hook, SpecFetchFair with requests that *)
(*                     settle                                              *)
(*   SpecBcrypt        signup and signin with bcrypt-hashed passwords      *)
(*   SpecJwt           JWT authentication and the authenticateJWT          *)
(*                     middleware, SpecJwtFair with requests that are      *)
(*                     handled to the end                                  *)
(*   SpecTimer         the Timer component and its interval                *)
(*   SpecPrevious      the usePrevious hook                                *)
(*   SpecAtoms         the atomFamily todoState and the Todo component     *)
(*   SpecUseCounter    the useCounter hook                                 *)
(*   SpecDemo          the debounce demo App                               *)
(*   SpecModal         the modal of the children-props demo                *)
(*   SpecRefetch       the useFetch hook with refetch                      *)
(*   SpecDom           the todo app written with the DOM                   *)
(*   SpecServer        the backend of the React todo app                   *)
(*   SpecViewer        the post viewer App                                 *)
(*   SpecTodoApp       TodoApp, the React frontend of the todo backend     *)
(***************************************************************************)
EXTENDS Integers, Sequences, FiniteSets, TLC

VARIABLES
    \* ---- token-based authentication server (src/README.md 353-408)
    users,      \* const users = []: sequence of {username, password, token}
    req,        \* the request handled last (history)
    resp,       \* the response sent to it
    issued,     \* history: <<token, username>> pairs /signin has issued
    lastSignin, \* history: outcome of the most recent /signin, with the
                \* index of the record that signed in
    \* ---- useDebounce(value, delay) (childrenProps.jsx 813-825)
    dPhase,     \* "init" (rendered, effect not yet run), "mounted", "unmounted"
    dValue,     \* the value argument of the latest render
    dDelay,     \* the delay argument of the latest render
    dDebounced, \* the debouncedValue state
    dTimers,    \* the browser's pending timeouts: records [id, due, val]
    dCleanup,   \* the timer id the latest effect's cleanup closure holds
    dNextId,    \* the id the next setTimeout returns
    now,        \* the clock
    dSince,     \* history: when value last changed
    dLast,      \* history: the latest run of a timer callback
    \* ---- ErrorBoundary and its demo App (errorBoundary.jsx)
    hasError,   \* this.state.hasError of the two ErrorBoundary instances
    ebThrows,   \* per slot of App: does rendering the card in it throw?
    ebDemo,     \* history: the cards are those of the demo and always were
    ebPc,       \* "idle", "render", "unwind", "crashed"
    ebPos,      \* the slot of App the render pass has reached
    ebWip,      \* the output of the render pass so far, per slot
    ebDom,      \* what the page shows, per slot
    ebCaught,   \* the errors caught in this pass: records [boundary, error]
    ebLog,      \* the console.error calls of componentDidCatch
    ebUncaught, \* the slot whose error reached the root, 0 if none
    ebPasses,   \* render passes started
    \* ---- the counter in three state-management styles
    cStore,     \* per app: the count the state cell (or the atom) holds
    cShown,     \* per app: the count of the latest render, which the page
                \* shows and the click handlers of Buttons have captured
    cIncs,      \* history: clicks on the increment button
    cDecs,      \* history: clicks on the decrement button
    cFresh,     \* history: every click so far followed a re-render
    \* ---- useFetch(url) (childrenProps.jsx 774-794)
    fPhase,     \* "init" (rendered, effect not yet run) or "mounted"
    fUrl,       \* the url argument of the latest render
    fState,     \* the hook's state cells: [data, loading, error]
    fInflight,  \* the requests started and not settled: records [id, url]
    fNextId,    \* the number of the next request
    fSettled    \* history: the request that settled last, and how

VARIABLES
    \* ---- signup and signin with bcrypt-hashed passwords (README.md 656-684)
    bUsers,     \* the documents of the User collection: {username, password}
    bPlain,     \* history: per document, the password its /signup was given
    bReq,       \* the request handled last (history)
    bResp       \* the response sent to it, Unanswered if the handler threw

VARIABLES
    \* ---- JWT authentication: /signin, /me, authenticateJWT (README.md 440-492)
    jUsers,     \* the users array: records {username, password}
    jReq,       \* the request being handled, or handled last
    jPc,        \* where it is: "idle", "middleware" or "handler"
    jUser,      \* req.user
    jResps,     \* the responses sent to it, in order
    jNext,      \* the calls of next() while handling it
    jRan,       \* the route handler has run for it
    jIssued,    \* history: <<token, username>> pairs /signin has issued
    jFirst      \* history: the first request handled that carried a token
                \* to /me or /protected, and the response to it

VARIABLES
    \* ---- Timer (childrenProps.jsx 522-537)
    tPhase,     \* "init" (rendered, effect not yet run), "mounted", "unmounted"
    tInst,      \* the number of the Timer instance (1 for the first mount)
    seconds,    \* the seconds state of that instance
    tIntervals, \* the browser's active intervals: records [id, inst]
    tCleanup,   \* the interval id the cleanup closure holds, 0 if none
    tNextId,    \* the id the next setInterval returns
    tTicks      \* history: interval callbacks run so far

VARIABLES
    \* ---- usePrevious(value) (README.md 1435-1443)
    pPhase,     \* "unmounted", "rendered" (effect not yet run) or "idle"
    pValue,     \* the value argument of the latest render
    pRef,       \* ref.current
    pDeps,      \* the dependency list of the effect's latest run
    pReturned,  \* what the latest render returned
    pBefore,    \* history: the value argument of the render before it
    pRenders    \* history: renders so far

VARIABLES
    \* ---- todoState = atomFamily(...) and Todo (README.md 1487-1511)
    aStore,     \* per id: the value set on the atom todoState(id), or Unset
    aTodo,      \* per id: the todo the mounted <Todo id> rendered last and
                \* its onChange has captured, or Unset when not mounted
    aLastSet    \* history: the id of the Todo whose onChange ran last

VARIABLES
    \* ---- useCounter(initialValue) (README.md 1333-1341)
    uPhase,     \* "unmounted" or "mounted"
    uInitial,   \* the initialValue argument
    uCount,     \* count as of the latest render
    uQueue,     \* the updates setCount has queued since that render
    uLog,       \* history: the calls of increment, decrement and reset
    uBatch      \* history: the number of updates the latest render applied

VARIABLES
    \* ---- the debounce demo App (src/unnamed/part_002)
    xPhase,     \* "init" (rendered, effects not yet run) or "mounted"
    inputValue, \* the inputValue state
    xDebounced, \* useDebouncedValue: the debouncedValue state of the hook
    xTimers,    \* the browser's pending timeouts: records [id, due, val]
    xCleanup,   \* the timer id the cleanup of the hook's latest effect holds
    xNextId,    \* the id the next setTimeout returns
    xNow,       \* the clock, in milliseconds
    xRuns,      \* the runs of the effect that logs "Exensive Oprations"
    xSince,     \* history: when inputValue changed last
    xRunsThen   \* history: xRuns at that moment

VARIABLES
    \* ---- the modal of the children-props demo (childrenProps.jsx 103-182)
    isModalOpen, \* the isModalOpen state of App
    mShown,      \* what <Modal> rendered: "null" or "modal"
    mClicks      \* history: the buttons clicked, in order

VARIABLES
    \* ---- useFetch(url) with refetch (README.md 2056-2082)
    rPhase,     \* "init" (rendered, effect not yet run) or "mounted"
    rUrl,       \* the url argument of the latest render
    rState,     \* the hook's state cells: [data, loading, error]
    rInflight,  \* the requests started and not settled: records [id, url,
                \* by], by the caller of fetchData ("effect" or "refetch")
    rNextId,    \* the number of the next request
    rSettled,   \* history: the request that settled last, and how
    rRefetches  \* history: calls of refetch so far

VARIABLES
    \* ---- the todo app with DOM (README.md 832-864)
    domTodos,   \* let todos = []: sequence of {id, text, completed}
    domInput,   \* the value of the input #todoInput
    domList,    \* the children of #todoList: records [span, deletes], the
                \* text the span shows and the id its Delete button passes
    domNow,     \* Date.now(), in milliseconds since the page was loaded
    domLast     \* history: the function called last and its argument

VARIABLES
    \* ---- the backend of the React todo app (README.md 998-1023)
    srvTodos,   \* let todos = []: sequence of {id, text, completed}
    srvReq,     \* the request handled last (history)
    srvResp,    \* the JSON body of the response to it
    srvNow,     \* Date.now(), in milliseconds since the server started
    srvPosted   \* history: req.body.text of every POST /todos, in order

VARIABLES
    \* ---- the post viewer App (src/unnamed/part_001)
    vPhase,      \* "init" (rendered, effect not yet run) or "mounted"
    currentPost, \* the currentPost state
    vUrl,        \* the url the latest render passed to useFetch
    vState,      \* the state cells of the hook: [data, loading, error]
    vShown,      \* what App rendered: "Loading..." or "post"
    vInflight,   \* the requests started and not settled: records [id, url]
    vNextId      \* the number of the next request

VARIABLES
    \* ---- TodoApp, the React frontend of the todo backend (README.md 2016-2051)
    taPhase,     \* "init" (rendered, effect not yet run) or "mounted"
    taTodos,     \* the todos state: the todos as parsed from the responses
    taInput,     \* the input state
    taRequests,  \* requests on their way to the server: [id, op, text, closure]
    taResponses, \* responses on their way back: [id, op, body, closure]
    taServer,    \* the todos array of the server
    taNow,       \* Date.now() of the server
    taNextId     \* the number of the next request

authVars == <<users, req, resp, issued, lastSignin>>
debVars == <<dPhase, dValue, dDelay, dDebounced, dTimers, dCleanup, dNextId,
             now, dSince, dLast>>

ebVars == <<hasError, ebThrows, ebDemo, ebPc, ebPos, ebWip, ebDom, ebCaught,
            ebLog, ebUncaught, ebPasses>>

cntVars == <<cStore, cShown, cIncs, cDecs, cFresh>>
fetchVars == <<fPhase, fUrl, fState, fInflight, fNextId, fSettled>>
bcVars == <<bUsers, bPlain, bReq, bResp>>
jwtVars == <<jUsers, jReq, jPc, jUser, jResps, jNext, jRan, jIssued, jFirst>>
timerVars == <<tPhase, tInst, seconds, tIntervals, tCleanup, tNextId, tTicks>>
prevVars == <<pPhase, pValue, pRef, pDeps, pReturned, pBefore, pRenders>>
atomVars == <<aStore, aTodo, aLastSet>>
ucVars == <<uPhase, uInitial, uCount, uQueue, uLog, uBatch>>
demoVars == <<xPhase, inputValue, xDebounced, xTimers, xCleanup, xNextId,
              xNow, xRuns, xSince, xRunsThen>>
modalVars == <<isModalOpen, mShown, mClicks>>
refetchVars == <<rPhase, rUrl, rState, rInflight, rNextId, rSettled, rRefetches>>
domVars == <<domTodos, domInput, domList, domNow, domLast>>
srvVars == <<srvTodos, srvReq, srvResp, srvNow, srvPosted>>
viewerVars == <<vPhase, currentPost, vUrl, vState, vShown, vInflight, vNextId>>
todoAppVars == <<taPhase, taTodos, taInput, taRequests, taResponses, taServer,
                 taNow, taNextId>>

\* The frame of each example: the variables of all the other examples.
otherThanAuth == <<debVars, ebVars, cntVars, fetchVars, bcVars, jwtVars,
                   timerVars, prevVars, atomVars, ucVars, demoVars,
                   modalVars, refetchVars, domVars, srvVars, viewerVars,
                   todoAppVars>>
otherThanDebounce == <<authVars, ebVars, cntVars, fetchVars, bcVars,
                       jwtVars, timerVars, prevVars, atomVars, ucVars,
                       demoVars, modalVars, refetchVars, domVars, srvVars,
                       viewerVars, todoAppVars>>
otherThanBoundary == <<authVars, debVars, cntVars, fetchVars, bcVars,
                       jwtVars, timerVars, prevVars, atomVars, ucVars,
                       demoVars, modalVars, refetchVars, domVars, srvVars,
                       viewerVars, todoAppVars>>
otherThanCounters == <<authVars, debVars, ebVars, fetchVars, bcVars,
                       jwtVars, timerVars, prevVars, atomVars, ucVars,
                       demoVars, modalVars, refetchVars, domVars, srvVars,
                       viewerVars, todoAppVars>>
otherThanFetch == <<authVars, debVars, ebVars, cntVars, bcVars, jwtVars,
                    timerVars, prevVars, atomVars, ucVars, demoVars,
                    modalVars, refetchVars, domVars, srvVars, viewerVars,
                    todoAppVars>>
otherThanBcrypt == <<authVars, debVars, ebVars, cntVars, fetchVars,
                     jwtVars, timerVars, prevVars, atomVars, ucVars,
                     demoVars, modalVars, refetchVars, domVars, srvVars,
                     viewerVars, todoAppVars>>
otherThanJwt == <<authVars, debVars, ebVars, cntVars, fetchVars, bcVars,
                  timerVars, prevVars, atomVars, ucVars, demoVars,
                  modalVars, refetchVars, domVars, srvVars, viewerVars,
                  todoAppVars>>
otherThanTimer == <<authVars, debVars, ebVars, cntVars, fetchVars, bcVars,
                    jwtVars, prevVars, atomVars, ucVars, demoVars,
                    modalVars, refetchVars, domVars, srvVars, viewerVars,
                    todoAppVars>>
otherThanPrevious == <<authVars, debVars, ebVars, cntVars, fetchVars,
                       bcVars, jwtVars, timerVars, atomVars, ucVars,
                       demoVars, modalVars, refetchVars, domVars, srvVars,
                       viewerVars, todoAppVars>>
otherThanAtoms == <<authVars, debVars, ebVars, cntVars, fetchVars, bcVars,
                    jwtVars, timerVars, prevVars, ucVars, demoVars,
                    modalVars, refetchVars, domVars, srvVars, viewerVars,
                    todoAppVars>>
otherThanUseCounter == <<authVars, debVars, ebVars, cntVars, fetchVars,
                         bcVars, jwtVars, timerVars, prevVars, atomVars,
                         demoVars, modalVars, refetchVars, domVars,
                         srvVars, viewerVars, todoAppVars>>
otherThanDemo == <<authVars, debVars, ebVars, cntVars, fetchVars, bcVars,
                   jwtVars, timerVars, prevVars, atomVars, ucVars,
                   modalVars, refetchVars, domVars, srvVars, viewerVars,
                   todoAppVars>>
otherThanModal == <<authVars, debVars, ebVars, cntVars, fetchVars, bcVars,
                    jwtVars, timerVars, prevVars, atomVars, ucVars,
                    demoVars, refetchVars, domVars, srvVars, viewerVars,
                    todoAppVars>>
otherThanRefetch == <<authVars, debVars, ebVars, cntVars, fetchVars,
                      bcVars, jwtVars, timerVars, prevVars, atomVars,
                      ucVars, demoVars, modalVars, domVars, srvVars,
                      viewerVars, todoAppVars>>
otherThanDom == <<authVars, debVars, ebVars, cntVars, fetchVars, bcVars,
                  jwtVars, timerVars, prevVars, atomVars, ucVars, demoVars,
                  modalVars, refetchVars, srvVars, viewerVars, todoAppVars>>
otherThanServer == <<authVars, debVars, ebVars, cntVars, fetchVars, bcVars,
                     jwtVars, timerVars, prevVars, atomVars, ucVars,
                     demoVars, modalVars, refetchVars, domVars, viewerVars,
                     todoAppVars>>
otherThanViewer == <<authVars, debVars, ebVars, cntVars, fetchVars, bcVars,
                     jwtVars, timerVars, prevVars, atomVars, ucVars,
                     demoVars, modalVars, refetchVars, domVars, srvVars,
                     todoAppVars>>
otherThanTodoApp == <<authVars, debVars, ebVars, cntVars, fetchVars,
                      bcVars, jwtVars, timerVars, prevVars, atomVars,
                      ucVars, demoVars, modalVars, refetchVars, domVars,
                      srvVars, viewerVars>>

vars == <<authVars, debVars, ebVars, cntVars, fetchVars, bcVars, jwtVars,
         timerVars, prevVars, atomVars, ucVars, demoVars, modalVars,
         refetchVars, domVars, srvVars, viewerVars, todoAppVars>>

(***************************************************************************)
(* Token-based authentication: /signup, /signin, /me over the users array. *)
(***************************************************************************)

\* Cap on the length of the users array (signup is unbounded in the code).
MaxUsers == 2

Usernames == {"alice", "bob"}
Passwords == {"pw1", "pw2"}
\* generateToken() draws 32 random characters; the model draws from a small
\* pool, so that two draws can coincide as two random strings can.
Tokens == {"tokA", "tokB"}

\* JavaScript's undefined: the token property of a user who never signed
\* in, and req.headers.token of a request without a token header.
Undefined == "undefined"

NoRequest == [op |-> "none", username |-> Undefined, password |-> Undefined,
              token |-> Undefined]
NoResponse == [status |-> 0, kind |-> "none", value |-> Undefined]
NoSignin == [ok |-> FALSE, username |-> Undefined, token |-> Undefined,
             index |-> 0]

\* Array.prototype.find, given the set S of the indices whose element
\* satisfies the predicate: the first of them, 0 if there is none.
Find(S) == IF S = {} THEN 0 ELSE CHOOSE i \in S : \A j \in S : i <= j

\* generateToken(): the strings it can return.
generateToken == Tokens

\* app.post("/signup"): users.push({ username, password }).
signup(us, username, password) ==
    [users |-> Append(us, [username |-> username, password |-> password,
                           token |-> Undefined]),
     resp  |-> [status |-> 200, kind |-> "message",
                value |-> "You have signed up"]]

\* A mutant of signin: the token is returned and not stored in the record.
signinTokenNotStored(us, username, password, token) ==
    LET i == Find({k \in DOMAIN us : us[k].username = username
                                        /\ us[k].password = password})
    IN  IF i # 0
        THEN [users |-> us,
              resp  |-> [status |-> 200, kind |-> "token", value |-> token]]
        ELSE [users |-> us,
              resp  |-> [status |-> 403, kind |-> "message",
                         value |-> "Invalid credentials"]]

\* A mutant of signin: the credentials check compares the username only.
signinUsernameOnly(us, username, password, token) ==
    LET i == Find({k \in DOMAIN us : us[k].username = username})
    IN  IF i # 0
        THEN [users |-> [us EXCEPT ![i].token = token],
              resp  |-> [status |-> 200, kind |-> "token", value |-> token]]
        ELSE [users |-> us,
              resp  |-> [status |-> 403, kind |-> "message",
                         value |-> "Invalid credentials"]]

\* A mutant of signin: a record that holds a token keeps it.
signinKeepsFirstToken(us, username, password, token) ==
    LET i == Find({k \in DOMAIN us : us[k].username = username
                                        /\ us[k].password = password})
    IN  IF i # 0
        THEN [users |-> [us EXCEPT ![i].token =
                            IF us[i].token = Undefined THEN token ELSE us[i].token],
              resp  |-> [status |-> 200, kind |-> "token", value |-> token]]
        ELSE [users |-> us,
              resp  |-> [status |-> 403, kind |-> "message",
                         value |-> "Invalid credentials"]]

\* app.post("/signin"); token is the value generateToken() returns when the
\* handler calls it.
signin(us, username, password, token) ==
    LET i == Find({k \in DOMAIN us : us[k].username = username
                                        /\ us[k].password = password})
    IN  IF i # 0
        THEN [users |-> [us EXCEPT ![i].token = token],
              resp  |-> [status |-> 200, kind |-> "token", value |-> token]]
        ELSE [users |-> us,
              resp  |-> [status |-> 403, kind |-> "message",
                         value |-> "Invalid credentials"]]

\* app.get("/me"); token is req.headers.token (Undefined without the header).
me(us, token) ==
    LET i == Find({k \in DOMAIN us : us[k].token = token})
    IN  IF i # 0
        THEN [status |-> 200, kind |-> "username", value |-> us[i].username]
        ELSE [status |-> 200, kind |-> "message", value |-> "Token Invalid"]

InitAuth ==
    /\ users = <<>>
    /\ req = NoRequest
    /\ resp = NoResponse
    /\ issued = {}
    /\ lastSignin = NoSignin

Signup ==
    \E u \in Usernames, p \in Passwords :
        /\ Len(users) < MaxUsers
        /\ LET r == signup(users, u, p)
           IN  /\ users' = r.users
               /\ resp' = r.resp
        /\ req' = [op |-> "signup", username |-> u, password |-> p,
                   token |-> Undefined]
        /\ UNCHANGED <<issued, lastSignin>>
        /\ UNCHANGED otherThanAuth

Signin ==
    \E u \in Usernames, p \in Passwords, t \in generateToken :
        LET r == signin(users, u, p, t)
        IN  /\ users' = r.users
            /\ resp' = r.resp
            /\ req' = [op |-> "signin", username |-> u, password |-> p,
                       token |-> Undefined]
            /\ issued' = IF r.resp.kind = "token"
                         THEN issued \cup {<<r.resp.value, u>>}
                         ELSE issued
            /\ lastSignin' =
                  IF r.resp.kind = "token"
                  THEN [ok |-> TRUE, username |-> u, token |-> r.resp.value,
                        index |-> Find({k \in DOMAIN users :
                                          users[k].username = u
                                          /\ users[k].password = p})]
                  ELSE NoSignin
            /\ UNCHANGED otherThanAuth

Me ==
    \E t \in Tokens \cup {Undefined} :
        /\ resp' = me(users, t)
        /\ req' = [op |-> "me", username |-> Undefined, password |-> Undefined,
                   token |-> t]
        /\ UNCHANGED <<users, issued, lastSignin>>
        /\ UNCHANGED otherThanAuth

NextAuth == Signup \/ Signin \/ Me

(***************************************************************************)
(* useDebounce(value, delay): one state cell, one effect with a cleanup.   *)
(* A render whose [value, delay] differ from the previous render's runs    *)
(* the previous effect's cleanup and then the effect (React's rule for an  *)
(* effect with a dependency array); the render and its effects are one     *)
(* step. Time is a counter; a timeout runs at or after its due time.       *)
(***************************************************************************)

\* The clock stops here.
MaxTime == 4
\* Cap on the number of setTimeout calls.
MaxTimers == 3

DValues == {"", "a", "ab"}
Delays == {1, 2}

NoFire == [fired |-> FALSE, val |-> "", at |-> 0, cur |-> "", since |-> 0,
           delay |-> 0, phase |-> "init"]

\* useState(value): the initial debouncedValue.
useDebounceState(value) == value

\* The effect body: setTimeout(() => setDebouncedValue(value), delay); id is
\* the timer id setTimeout returns.
debounceEffect(value, delay, id, t) == [id |-> id, due |-> t + delay, val |-> value]

\* The mutant of debounceCleanup: the effect returns no cleanup.
debounceCleanupMissing(timers, id) == timers

\* The cleanup the effect returns: clearTimeout(timer).
debounceCleanup(timers, id) == {t \in timers : t.id # id}

\* The mutant of debounceCallback: the callback does not set the state.
debounceCallbackIdle(phase, debounced, timer) == debounced

\* The timer callback: setDebouncedValue(value), value as the effect
\* captured it. A state update of an unmounted component is dropped.
debounceCallback(phase, debounced, timer) ==
    IF phase = "mounted" THEN timer.val ELSE debounced

InitDebounce ==
    /\ dPhase = "init"
    /\ dValue \in DValues
    /\ dDelay \in Delays
    /\ dDebounced = useDebounceState(dValue)
    /\ dTimers = {}
    /\ dCleanup = 0
    /\ dNextId = 1
    /\ now = 0
    /\ dSince = 0
    /\ dLast = NoFire

\* The first render's effect runs.
DMount ==
    /\ dPhase = "init"
    /\ dPhase' = "mounted"
    /\ dTimers' = dTimers \cup {debounceEffect(dValue, dDelay, dNextId, now)}
    /\ dCleanup' = dNextId
    /\ dNextId' = dNextId + 1
    /\ UNCHANGED <<dValue, dDelay, dDebounced, now, dSince, dLast>>
    /\ UNCHANGED otherThanDebounce

\* A render with a changed value or delay: cleanup, then the effect.
DRender ==
    \E v \in DValues, d \in Delays :
        /\ dPhase = "mounted"
        /\ <<v, d>> # <<dValue, dDelay>>
        /\ dNextId <= MaxTimers
        /\ now + d <= MaxTime
        /\ dValue' = v
        /\ dDelay' = d
        /\ dTimers' = debounceCleanup(dTimers, dCleanup)
                        \cup {debounceEffect(v, d, dNextId, now)}
        /\ dCleanup' = dNextId
        /\ dNextId' = dNextId + 1
        /\ dSince' = IF v # dValue THEN now ELSE dSince
        /\ UNCHANGED <<dPhase, dDebounced, now, dLast>>
        /\ UNCHANGED otherThanDebounce

\* A pending timeout that is due runs its callback.
DTimerFire ==
    \E t \in dTimers :
        /\ now >= t.due
        /\ dTimers' = dTimers \ {t}
        /\ dDebounced' = debounceCallback(dPhase, dDebounced, t)
        /\ dLast' = [fired |-> TRUE, val |-> t.val, at |-> now, cur |-> dValue,
                     since |-> dSince, delay |-> dDelay, phase |-> dPhase]
        /\ UNCHANGED <<dPhase, dValue, dDelay, dCleanup, dNextId, now, dSince>>
        /\ UNCHANGED otherThanDebounce

\* The component unmounts: the effect's cleanup runs.
DUnmount ==
    /\ dPhase = "mounted"
    /\ dPhase' = "unmounted"
    /\ dTimers' = debounceCleanup(dTimers, dCleanup)
    /\ UNCHANGED <<dValue, dDelay, dDebounced, dCleanup, dNextId, now, dSince,
                   dLast>>
    /\ UNCHANGED otherThanDebounce

DTick ==
    /\ now < MaxTime
    /\ now' = now + 1
    /\ UNCHANGED <<dPhase, dValue, dDelay, dDebounced, dTimers, dCleanup,
                   dNextId, dSince, dLast>>
    /\ UNCHANGED otherThanDebounce

NextDebounce == DMount \/ DRender \/ DTimerFire \/ DUnmount \/ DTick


(***************************************************************************)
(* ErrorBoundary (a class component) and the demo App: two boundaries,     *)
(* the first around Card1, the second around Card2, and Card3 outside any  *)
(* boundary. React's part is modelled by its documented protocol: a render *)
(* pass renders the slots of App in order; when rendering a child throws,  *)
(* the nearest boundary above it gets getDerivedStateFromError, its state  *)
(* is updated and it renders again; an error no boundary handles reaches   *)
(* the root, which unmounts the whole tree; the commit shows the output    *)
(* and calls componentDidCatch of the boundaries that caught.              *)
(* The class is also exercised with children other than the demo's cards:  *)
(* between passes a card may be exchanged for one that throws or does not. *)
(***************************************************************************)

\* Cap on the number of render passes.
MaxRenders == 3

Slots == 1..3
Boundaries == 1..2
Fallback == "Something went wrong."
NoOutput == "none"

\* Card1 throws while rendering; Card2 and Card3 return their markup.
Card1Throws == TRUE
Card2Throws == FALSE
Card3Throws == FALSE
DemoCards == <<Card1Throws, Card2Throws, Card3Throws>>

\* What the card of a slot renders when it does not throw.
CardOutput(slot) == <<"Card 1", "Card 2", "Card 3">>[slot]

\* The mutant of Wrapper: App puts Card1 and Card2 into the same boundary.
WrapperShared(slot) == IF slot \in {1, 2} THEN 1 ELSE 0

\* App: the boundary instance around the card of a slot, 0 for none.
Wrapper(slot) == IF slot \in Boundaries THEN slot ELSE 0

\* constructor: this.state = { hasError: false }.
ErrorBoundaryState == FALSE

\* The mutant of getDerivedStateFromError: the state it returns has no error.
getDerivedStateFromErrorFalse(error) == FALSE

\* static getDerivedStateFromError(error): the new value of hasError.
getDerivedStateFromError(error) == TRUE

\* render(): the fallback, or the children (rendering them may throw).
ErrorBoundaryRender(stateHasError) ==
    IF stateHasError THEN Fallback ELSE "children"

\* componentDidCatch(error, info): console.error("Error caught:", ...).
componentDidCatch(log, boundary, error) ==
    Append(log, [boundary |-> boundary, error |-> error])

InitBoundary ==
    /\ hasError = [b \in Boundaries |-> ErrorBoundaryState]
    /\ ebThrows = DemoCards
    /\ ebDemo = TRUE
    /\ ebPc = "idle"
    /\ ebPos = 0
    /\ ebWip = [i \in Slots |-> NoOutput]
    /\ ebDom = [i \in Slots |-> NoOutput]
    /\ ebCaught = {}
    /\ ebLog = <<>>
    /\ ebUncaught = 0
    /\ ebPasses = 0

\* A mutant of EbStartRender: every pass constructs the boundaries anew.
EbStartRenderRemounts ==
    /\ ebPc = "idle"
    /\ ebPasses < MaxRenders
    /\ ebPc' = "render"
    /\ ebPos' = 1
    /\ ebPasses' = ebPasses + 1
    /\ ebWip' = [i \in Slots |-> NoOutput]
    /\ hasError' = [b \in Boundaries |-> ErrorBoundaryState]
    /\ UNCHANGED <<ebThrows, ebDemo, ebDom, ebCaught, ebLog, ebUncaught>>
    /\ UNCHANGED otherThanBoundary

\* A render pass of App starts (the mount, or a later update from the root).
EbStartRender ==
    /\ ebPc = "idle"
    /\ ebPasses < MaxRenders
    /\ ebPc' = "render"
    /\ ebPos' = 1
    /\ ebPasses' = ebPasses + 1
    /\ ebWip' = [i \in Slots |-> NoOutput]
    /\ UNCHANGED <<hasError, ebThrows, ebDemo, ebDom, ebCaught, ebLog, ebUncaught>>
    /\ UNCHANGED otherThanBoundary

\* The slot the pass has reached is rendered: its boundary's render(), if it
\* has one, and the card unless the boundary renders the fallback.
EbRenderSlot ==
    /\ ebPc = "render"
    /\ ebPos \in Slots
    /\ LET b == Wrapper(ebPos)
           out == IF b = 0 THEN "children" ELSE ErrorBoundaryRender(hasError[b])
       IN  IF out = "children" /\ ebThrows[ebPos]
           THEN /\ ebPc' = "unwind"
                /\ UNCHANGED <<ebPos, ebWip>>
           ELSE /\ ebWip' = [ebWip EXCEPT ![ebPos] =
                                IF out = "children" THEN CardOutput(ebPos) ELSE out]
                /\ ebPos' = ebPos + 1
                /\ UNCHANGED ebPc
    /\ UNCHANGED <<hasError, ebThrows, ebDemo, ebDom, ebCaught, ebLog, ebUncaught,
                   ebPasses>>
    /\ UNCHANGED otherThanBoundary

\* The card of slot ebPos threw. With a boundary above it: the boundary's
\* state is updated from getDerivedStateFromError and it renders again; if it
\* renders its children again the error goes on upwards. Without one, or when
\* it goes on upwards, the error reaches the root and the tree is unmounted.
EbUnwind ==
    /\ ebPc = "unwind"
    /\ LET b == Wrapper(ebPos)
           st == getDerivedStateFromError(ebPos)
       IN  IF b # 0 /\ ErrorBoundaryRender(st) # "children"
           THEN /\ hasError' = [hasError EXCEPT ![b] = st]
                /\ ebWip' = [ebWip EXCEPT ![ebPos] = ErrorBoundaryRender(st)]
                /\ ebCaught' = ebCaught \cup {[boundary |-> b, error |-> ebPos]}
                /\ ebPos' = ebPos + 1
                /\ ebPc' = "render"
                /\ UNCHANGED <<ebDom, ebUncaught>>
           ELSE /\ ebPc' = "crashed"
                /\ ebUncaught' = ebPos
                /\ ebDom' = [i \in Slots |-> NoOutput]
                /\ UNCHANGED <<hasError, ebWip, ebCaught, ebPos>>
    /\ UNCHANGED <<ebThrows, ebDemo, ebLog, ebPasses>>
    /\ UNCHANGED otherThanBoundary

RECURSIVE DidCatchAll(_, _)
\* The commit calls componentDidCatch of every boundary that caught, in
\* the order of the tree.
DidCatchAll(log, cs) ==
    IF cs = {} THEN log
    ELSE LET c == CHOOSE x \in cs : \A y \in cs : x.error <= y.error
         IN  DidCatchAll(componentDidCatch(log, c.boundary, c.error), cs \ {c})

\* The pass is complete: the output is committed to the page.
EbCommit ==
    /\ ebPc = "render"
    /\ ebPos = 4
    /\ ebDom' = ebWip
    /\ ebLog' = DidCatchAll(ebLog, ebCaught)
    /\ ebCaught' = {}
    /\ ebPc' = "idle"
    /\ ebPos' = 0
    /\ UNCHANGED <<hasError, ebThrows, ebDemo, ebWip, ebUncaught, ebPasses>>
    /\ UNCHANGED otherThanBoundary

\* Between passes the card of a slot is exchanged for another child.
EbSwapChild ==
    \E i \in Slots :
        /\ ebPc = "idle"
        /\ ebThrows' = [ebThrows EXCEPT ![i] = ~ebThrows[i]]
        /\ ebDemo' = FALSE
        /\ UNCHANGED <<hasError, ebPc, ebPos, ebWip, ebDom, ebCaught, ebLog,
                       ebUncaught, ebPasses>>
        /\ UNCHANGED otherThanBoundary

NextBoundary == EbStartRender \/ EbRenderSlot \/ EbUnwind \/ EbCommit \/ EbSwapChild

(***************************************************************************)
(* The counter, written three times: with prop drilling (useState in App,  *)
(* count and setCount passed down), with Context (useState in App, passed  *)
(* through CountContext.Provider) and with Recoil (countAtom). In each the *)
(* buttons call setCount(count - 1) and setCount(count + 1) with the count *)
(* of the render that created the handler. The same clicks go to the three *)
(* apps; each app re-renders on its own.                                   *)
(***************************************************************************)

\* Cap on the number of clicks.
MaxClicks == 4

Apps == {"props", "context", "recoil"}

\* useState(0) in App of the prop-drilling and of the Context version.
PropsInitial == 0
ContextInitial == 0
\* The default of countAtom (store/atom/count.jsx).
RecoilInitial == 0

InitialCount(app) ==
    CASE app = "props" -> PropsInitial
      [] app = "context" -> ContextInitial
      [] app = "recoil" -> RecoilInitial

\* Buttons of the prop-drilling version: setCount(count - 1), setCount(count + 1).
PropsDesc(count) == count - 1
PropsInc(count) == count + 1

\* The mutant of ContextDesc: the desc button adds.
ContextDescAdds(count) == count + 1

\* Buttons of the Context version.
ContextDesc(count) == count - 1
ContextInc(count) == count + 1

\* Buttons of the Recoil version.
RecoilDesc(count) == count - 1
RecoilInc(count) == count + 1

\* The value the click handler of an app passes to setCount.
OnClick(app, button, count) ==
    CASE app = "props" /\ button = "inc" -> PropsInc(count)
      [] app = "props" /\ button = "desc" -> PropsDesc(count)
      [] app = "context" /\ button = "inc" -> ContextInc(count)
      [] app = "context" /\ button = "desc" -> ContextDesc(count)
      [] app = "recoil" /\ button = "inc" -> RecoilInc(count)
      [] app = "recoil" /\ button = "desc" -> RecoilDesc(count)

InitCounters ==
    /\ cStore = [a \in Apps |-> InitialCount(a)]
    /\ cShown = [a \in Apps |-> InitialCount(a)]
    /\ cIncs = 0
    /\ cDecs = 0
    /\ cFresh = TRUE

\* One click, on the same button of each app.
CClick ==
    \E button \in {"inc", "desc"} :
        /\ cIncs + cDecs < MaxClicks
        /\ cStore' = [a \in Apps |-> OnClick(a, button, cShown[a])]
        /\ cIncs' = IF button = "inc" THEN cIncs + 1 ELSE cIncs
        /\ cDecs' = IF button = "desc" THEN cDecs + 1 ELSE cDecs
        /\ cFresh' = (cFresh /\ cShown = cStore)
        /\ UNCHANGED cShown
        /\ UNCHANGED otherThanCounters

\* An app re-renders after its count changed.
CRender ==
    \E a \in Apps :
        /\ cShown[a] # cStore[a]
        /\ cShown' = [cShown EXCEPT ![a] = cStore[a]]
        /\ UNCHANGED <<cStore, cIncs, cDecs, cFresh>>
        /\ UNCHANGED otherThanCounters

NextCounters == CClick \/ CRender

(***************************************************************************)
(* useFetch(url): three state cells and an effect on [url] that starts a   *)
(* request and returns no cleanup. A render with a new url and its effect  *)
(* are one step; a request settles, fulfilled or rejected, in a step of    *)
(* its own, whenever the network delivers it. The two state updates of a   *)
(* promise callback are applied together.                                  *)
(***************************************************************************)

\* Cap on the number of requests the hook starts.
MaxRequests == 3

Urls == {"posts/1", "posts/2", "posts/3"}
Null == <<"null", "">>
\* The parsed body the server returns for a url, and the error of a request
\* for it that fails.
Response(url) == <<"json", url>>
Failure(url) == <<"error", url>>

NoneSettled == [id |-> 0, url |-> "", ok |-> FALSE]

\* useState(null), useState(true), useState(null).
useFetchState == [data |-> Null, loading |-> TRUE, error |-> Null]

\* The effect body up to the fetch call: setLoading(true).
fetchEffect(st) == [st EXCEPT !.loading = TRUE]

\* The mutant of fetchCleanup: the effect's cleanup aborts its request.
fetchCleanupAborts(inflight) == {}

\* The effect returns no cleanup: a new url leaves the requests in flight.
fetchCleanup(inflight) == inflight

\* .then(data => { setData(data); setLoading(false); })
onFulfilled(st, data) == [st EXCEPT !.data = data, !.loading = FALSE]

\* The mutant of onRejected: the catch callback leaves loading alone.
onRejectedKeepsLoading(st, err) == [st EXCEPT !.error = err]

\* .catch(err => { setError(err); setLoading(false); })
onRejected(st, err) == [st EXCEPT !.error = err, !.loading = FALSE]

\* DataDisplay: the loading message, else the error's message, else the data.
DataDisplay(hook) ==
    IF hook.loading THEN <<"Loading...", "">>
    ELSE IF hook.error # Null THEN hook.error
    ELSE hook.data

InitFetch ==
    /\ fPhase = "init"
    /\ fUrl = "posts/1"
    /\ fState = useFetchState
    /\ fInflight = {}
    /\ fNextId = 1
    /\ fSettled = NoneSettled

\* The effect of the first render runs.
FMount ==
    /\ fPhase = "init"
    /\ fPhase' = "mounted"
    /\ fState' = fetchEffect(fState)
    /\ fInflight' = fInflight \cup {[id |-> fNextId, url |-> fUrl]}
    /\ fNextId' = fNextId + 1
    /\ UNCHANGED <<fUrl, fSettled>>
    /\ UNCHANGED otherThanFetch

\* A render with another url: the effect runs again.
FChangeUrl ==
    \E u \in Urls :
        /\ fPhase = "mounted"
        /\ u # fUrl
        /\ fNextId <= MaxRequests
        /\ fUrl' = u
        /\ fState' = fetchEffect(fState)
        /\ fInflight' = fetchCleanup(fInflight) \cup {[id |-> fNextId, url |-> u]}
        /\ fNextId' = fNextId + 1
        /\ UNCHANGED <<fPhase, fSettled>>
        /\ UNCHANGED otherThanFetch

\* A request is fulfilled: the response arrived and parsed.
FResolve ==
    \E r \in fInflight :
        /\ fState' = onFulfilled(fState, Response(r.url))
        /\ fInflight' = fInflight \ {r}
        /\ fSettled' = [id |-> r.id, url |-> r.url, ok |-> TRUE]
        /\ UNCHANGED <<fPhase, fUrl, fNextId>>
        /\ UNCHANGED otherThanFetch

\* A request is rejected: the network failed or the body did not parse.
FReject ==
    \E r \in fInflight :
        /\ fState' = onRejected(fState, Failure(r.url))
        /\ fInflight' = fInflight \ {r}
        /\ fSettled' = [id |-> r.id, url |-> r.url, ok |-> FALSE]
        /\ UNCHANGED <<fPhase, fUrl, fNextId>>
        /\ UNCHANGED otherThanFetch

FSettle == FResolve \/ FReject

NextFetch == FMount \/ FChangeUrl \/ FResolve \/ FReject

(***************************************************************************)
(* Signup and signin with hashed passwords: the "Complete Auth System" of  *)
(* README.md 636-686 (bcrypt, mongoose, jsonwebtoken). The handlers of     *)
(* README.md 591-620 and MONGODB-README.md 379-406 differ in the text of   *)
(* the 403 messages only.                                                  *)
(***************************************************************************)

\* Cap on the number of documents of the User collection.
MaxDocs == 2

\* The salts bcrypt.hash can draw.
Salts == {"salt1", "salt2"}

\* The body of a request: username is a string, password is a string or is
\* missing (nothing validates the body before it is hashed or compared).
BodyPasswords == Passwords \cup {Undefined}

\* The value of a password field: a string that is a bcrypt hash names its
\* algorithm and its salt and ends in the digest of the data under the
\* salt; any other string is itself.
PlainText(data) == [alg |-> "none", salt |-> "", digest |-> <<data>>]

\* bcrypt.hash(data, 10) for a string: the salt is fresh.
bcryptHash(data, salt) ==
    [alg |-> "bcrypt", salt |-> salt, digest |-> <<salt, data>>]

\* bcrypt.hash and bcrypt.compare reject when data is not given ("data and
\* salt arguments required", "data and hash arguments required").
bcryptRejects(data) == data = Undefined

\* bcrypt.compare(data, hash) for a string: hash the data under the salt of
\* the hash and compare.
bcryptCompare(data, hash) == bcryptHash(data, hash.salt) = hash

\* jwt.sign({ username }, secret): the payload and a signature under secret.
jwtSign(username, secret) ==
    [payload |-> username, signature |-> <<username, secret>>]

\* The secret of the Complete Auth System.
AuthSecret == "secret-key"

\* An async handler whose promise rejected: nothing calls res.json.
Unanswered == [status |-> 0, kind |-> "unhandled rejection", value |-> Undefined]

\* app.post('/signup') with bcrypt; salt is the salt bcrypt.hash draws.
bcryptSignup(us, username, password, salt) ==
    IF bcryptRejects(password)
    THEN [users |-> us, resp |-> Unanswered]
    ELSE [users |-> Append(us, [username |-> username,
                                password |-> bcryptHash(password, salt)]),
          resp  |-> [status |-> 200, kind |-> "message",
                     value |-> "User created successfully"]]

\* app.post('/signin') with bcrypt; User.findOne({ username }) returns the
\* first document with that username.
bcryptSignin(us, username, password) ==
    LET i == Find({k \in DOMAIN us : us[k].username = username})
    IN  IF i = 0
        THEN [status |-> 403, kind |-> "message",
              value |-> "Invalid credentials"]
        ELSE IF bcryptRejects(password)
        THEN Unanswered
        ELSE IF bcryptCompare(password, us[i].password)
        THEN [status |-> 200, kind |-> "token",
              value |-> jwtSign(username, AuthSecret)]
        ELSE [status |-> 403, kind |-> "message",
              value |-> "Invalid credentials"]

InitBcrypt ==
    /\ bUsers = <<>>
    /\ bPlain = <<>>
    /\ bReq = NoRequest
    /\ bResp = NoResponse

BSignup ==
    \E u \in Usernames, p \in BodyPasswords, s \in Salts :
        /\ Len(bUsers) < MaxDocs
        /\ LET r == bcryptSignup(bUsers, u, p, s)
           IN  /\ bUsers' = r.users
               /\ bResp' = r.resp
               /\ bPlain' = IF r.users = bUsers THEN bPlain
                                                ELSE Append(bPlain, p)
        /\ bReq' = [op |-> "signup", username |-> u, password |-> p,
                    token |-> Undefined]
        /\ UNCHANGED otherThanBcrypt

BSignin ==
    \E u \in Usernames, p \in BodyPasswords :
        /\ bResp' = bcryptSignin(bUsers, u, p)
        /\ bReq' = [op |-> "signin", username |-> u, password |-> p,
                    token |-> Undefined]
        /\ UNCHANGED <<bUsers, bPlain>>
        /\ UNCHANGED otherThanBcrypt

NextBcrypt == BSignup \/ BSignin

(***************************************************************************)
(* JWT authentication (README.md 440-492, NODEJS-README.md 439-487):       *)
(* /signin signs a token, /me verifies it in the handler, /protected       *)
(* behind the authenticateJWT middleware. /signup is the one of the token  *)
(* example the section builds on (README.md 370-374).                      *)
(***************************************************************************)

\* Cap on the length of the users array.
MaxAccounts == 1

JWT_SECRET == "your-secret-key"

\* The keys a token can be signed with: the server's and another one.
Secrets == {JWT_SECRET, "another-key"}

\* req.headers.authorization: missing, the empty string, a string that is
\* no JWT, or a JWT: a payload signed by anyone, and a payload with the
\* signature of a different payload. A token signed with JWT_SECRET need
\* not come from this run of the server: the key is the same in every run,
\* the users array starts empty in each.
NoAuthorization == [payload |-> Undefined, signature |-> <<>>]
EmptyAuthorization == [payload |-> "", signature |-> <<>>]
Malformed == [payload |-> "Bearer", signature |-> <<>>]
Tampered == [payload |-> "alice", signature |-> <<"bob", JWT_SECRET>>]

Authorizations ==
    {NoAuthorization, EmptyAuthorization, Malformed, Tampered}
        \cup {jwtSign(u, s) : u \in Usernames, s \in Secrets}

\* jwt.verify(token, secret) returns (the decoded payload) when the token
\* is a JWT whose signature is that of its payload under secret; it throws
\* otherwise.
jwtVerifies(token, secret) == token.signature = <<token.payload, secret>>

NoJwtRequest == [route |-> "none", username |-> Undefined,
                 password |-> Undefined, authorization |-> NoAuthorization]
NoOutcome == [route |-> "none", authorization |-> NoAuthorization,
              resps |-> <<>>, stored |-> 0]

Unauthorized(message) == [status |-> 401, kind |-> "message", value |-> message]

\* users.push({ username, password }).
jwtSignup(us, username, password) ==
    [users |-> Append(us, [username |-> username, password |-> password]),
     resp  |-> [status |-> 200, kind |-> "message",
                value |-> "You have signed up"]]

\* app.post('/signin') of the JWT implementation.
jwtSignin(us, username, password) ==
    IF Find({k \in DOMAIN us : us[k].username = username
                                  /\ us[k].password = password}) # 0
    THEN [status |-> 200, kind |-> "token",
          value |-> jwtSign(username, JWT_SECRET)]
    ELSE [status |-> 403, kind |-> "message", value |-> "Invalid credentials"]

\* A mutant of jwtMe: the decoded username is looked up in the users array.
jwtMeLooksUpUser(us, token) ==
    IF /\ jwtVerifies(token, JWT_SECRET)
       /\ \E k \in DOMAIN us : us[k].username = token.payload
    THEN [status |-> 200, kind |-> "username", value |-> token.payload]
    ELSE Unauthorized("Invalid token")

\* app.get('/me'); us is the users array, which the handler does not use.
jwtMe(us, token) ==
    IF jwtVerifies(token, JWT_SECRET)
    THEN [status |-> 200, kind |-> "username", value |-> token.payload]
    ELSE Unauthorized("Invalid token")

\* A mutant of authenticateJWT: the 401 for a missing token is sent without
\* returning, so that jwt.verify runs on it as well.
authenticateJWTNoReturn(token) ==
    LET first == IF token \in {NoAuthorization, EmptyAuthorization}
                 THEN <<Unauthorized("No token provided")>> ELSE <<>>
    IN  IF jwtVerifies(token, JWT_SECRET)
        THEN [resps |-> first, next |-> 1, user |-> token.payload]
        ELSE [resps |-> first \o <<Unauthorized("Invalid token")>>,
              next |-> 0, user |-> Undefined]

\* authenticateJWT(req, res, next): the responses it sends, its calls of
\* next() and the req.user it sets.
authenticateJWT(token) ==
    IF token \in {NoAuthorization, EmptyAuthorization}
    THEN [resps |-> <<Unauthorized("No token provided")>>, next |-> 0,
          user |-> Undefined]
    ELSE IF jwtVerifies(token, JWT_SECRET)
    THEN [resps |-> <<>>, next |-> 1, user |-> token.payload]
    ELSE [resps |-> <<Unauthorized("Invalid token")>>, next |-> 0,
          user |-> Undefined]

\* The handler of app.get('/protected', authenticateJWT, ...).
protected(user) == [status |-> 200, kind |-> "access", value |-> user]

InitJwt ==
    /\ jUsers = <<>>
    /\ jReq = NoJwtRequest
    /\ jPc = "idle"
    /\ jUser = Undefined
    /\ jResps = <<>>
    /\ jNext = 0
    /\ jRan = FALSE
    /\ jIssued = {}
    /\ jFirst = NoOutcome

\* History: the first request to /me or /protected and its responses.
firstOutcome(first, request, resps, us) ==
    IF first = NoOutcome /\ request.route \in {"me", "protected"}
    THEN [route |-> request.route, authorization |-> request.authorization,
          resps |-> resps, stored |-> Len(us)]
    ELSE first

\* Express takes a request and starts the chain of its route.
JReceive ==
    \E route \in {"signup", "signin", "me", "protected"} :
        /\ jPc = "idle"
        /\ route = "signup" => Len(jUsers) < MaxAccounts
        /\ \/ /\ route \in {"signup", "signin"}
              /\ \E u \in Usernames, p \in Passwords :
                    jReq' = [route |-> route, username |-> u, password |-> p,
                             authorization |-> NoAuthorization]
           \/ /\ route \in {"me", "protected"}
              /\ \E a \in Authorizations :
                    jReq' = [route |-> route, username |-> Undefined,
                             password |-> Undefined, authorization |-> a]
        /\ jPc' = IF route = "protected" THEN "middleware" ELSE "handler"
        /\ jUser' = Undefined
        /\ jResps' = <<>>
        /\ jNext' = 0
        /\ jRan' = FALSE
        /\ UNCHANGED <<jUsers, jIssued, jFirst>>
        /\ UNCHANGED otherThanJwt

\* authenticateJWT runs for a request to /protected.
JMiddleware ==
    /\ jPc = "middleware"
    /\ LET r == authenticateJWT(jReq.authorization)
       IN  /\ jResps' = jResps \o r.resps
           /\ jNext' = jNext + r.next
           /\ jUser' = r.user
           /\ jPc' = IF r.next > 0 THEN "handler" ELSE "idle"
           /\ jFirst' = IF r.next > 0 THEN jFirst
                        ELSE firstOutcome(jFirst, jReq, jResps \o r.resps, jUsers)
    /\ UNCHANGED <<jUsers, jReq, jRan, jIssued>>
    /\ UNCHANGED otherThanJwt

\* The handler of the route runs.
JHandler ==
    /\ jPc = "handler"
    /\ LET r == CASE jReq.route = "signup" ->
                       jwtSignup(jUsers, jReq.username, jReq.password)
                  [] jReq.route = "signin" ->
                       [users |-> jUsers,
                        resp |-> jwtSignin(jUsers, jReq.username, jReq.password)]
                  [] jReq.route = "me" ->
                       [users |-> jUsers,
                        resp |-> jwtMe(jUsers, jReq.authorization)]
                  [] OTHER ->
                       [users |-> jUsers, resp |-> protected(jUser)]
       IN  /\ jUsers' = r.users
           /\ jResps' = Append(jResps, r.resp)
           /\ jIssued' = IF r.resp.kind = "token"
                         THEN jIssued \cup {<<r.resp.value, jReq.username>>}
                         ELSE jIssued
           /\ jFirst' = firstOutcome(jFirst, jReq, Append(jResps, r.resp), jUsers)
    /\ jRan' = TRUE
    /\ jPc' = "idle"
    /\ UNCHANGED <<jReq, jUser, jNext>>
    /\ UNCHANGED otherThanJwt

NextJwt == JReceive \/ JMiddleware \/ JHandler

(***************************************************************************)
(* Timer (childrenProps.jsx 522-537): an effect with no dependencies       *)
(* starts an interval that adds 1 to seconds, its cleanup clears it. The   *)
(* component can be mounted again after it was unmounted; every mount is   *)
(* a new instance with its own state.                                      *)
(***************************************************************************)

\* Cap on the number of interval callbacks run.
MaxTicks == 6
\* Cap on the number of times Timer is mounted.
MaxMounts == 3

\* The effect: const interval = setInterval(..., 1000).
timerEffect(intervals, id, inst) == intervals \cup {[id |-> id, inst |-> inst]}

\* A mutant of timerCleanup: the effect returns no cleanup.
timerCleanupMissing(intervals, id) == intervals

\* The cleanup: clearInterval(interval).
timerCleanup(intervals, id) == {iv \in intervals : iv.id # id}

\* The updater the interval callback passes to setSeconds: s => s + 1.
timerTick(s) == s + 1

InitTimer ==
    /\ tPhase = "init"
    /\ tInst = 1
    /\ seconds = 0
    /\ tIntervals = {}
    /\ tCleanup = 0
    /\ tNextId = 1
    /\ tTicks = 0

\* React runs the effect after the first render of the instance.
TMount ==
    /\ tPhase = "init"
    /\ tIntervals' = timerEffect(tIntervals, tNextId, tInst)
    /\ tCleanup' = tNextId
    /\ tNextId' = tNextId + 1
    /\ tPhase' = "mounted"
    /\ UNCHANGED <<tInst, seconds, tTicks>>
    /\ UNCHANGED otherThanTimer

\* The browser runs the callback of an active interval; setSeconds of an
\* instance that is no longer mounted does nothing.
TInterval ==
    \E iv \in tIntervals :
        /\ tTicks < MaxTicks
        /\ tTicks' = tTicks + 1
        /\ seconds' = IF iv.inst = tInst /\ tPhase = "mounted"
                      THEN timerTick(seconds) ELSE seconds
        /\ UNCHANGED <<tPhase, tInst, tIntervals, tCleanup, tNextId>>
        /\ UNCHANGED otherThanTimer

\* Timer is unmounted: React runs the cleanup of the effect.
TUnmount ==
    /\ tPhase = "mounted"
    /\ tIntervals' = timerCleanup(tIntervals, tCleanup)
    /\ tCleanup' = 0
    /\ tPhase' = "unmounted"
    /\ UNCHANGED <<tInst, seconds, tNextId, tTicks>>
    /\ UNCHANGED otherThanTimer

\* Timer is mounted again: useState(0) of the new instance.
TRemount ==
    /\ tPhase = "unmounted"
    /\ tInst < MaxMounts
    /\ tInst' = tInst + 1
    /\ seconds' = 0
    /\ tPhase' = "init"
    /\ UNCHANGED <<tIntervals, tCleanup, tNextId, tTicks>>
    /\ UNCHANGED otherThanTimer

NextTimer == TMount \/ TInterval \/ TUnmount \/ TRemount

(***************************************************************************)
(* usePrevious(value) (README.md 1435-1443): a ref the effect writes after *)
(* the render has read it. React runs the effect of a committed render     *)
(* before it renders the component again.                                  *)
(***************************************************************************)

\* Cap on the number of renders.
MaxPrevious == 7

\* The values the component passes to the hook.
PValues == {"a", "b", "c"}

\* A mutant of usePreviousReturn: the render returns the value it is given.
usePreviousReturnsValue(ref, value) == value

\* return ref.current.
usePreviousReturn(ref, value) == ref

\* useEffect(() => { ref.current = value; }, [value]): the ref once React
\* has compared the dependency list with the one of the latest run.
usePreviousEffect(ref, deps, value) == IF deps = <<value>> THEN ref ELSE value

InitPrevious ==
    /\ pPhase = "unmounted"
    /\ pValue = Undefined
    /\ pRef = Undefined
    /\ pDeps = <<>>
    /\ pReturned = Undefined
    /\ pBefore = Undefined
    /\ pRenders = 0

\* The component renders and calls usePrevious(v); useRef() starts the ref
\* as undefined on the first render.
PRender ==
    \E v \in PValues :
        /\ pPhase # "rendered"
        /\ pRenders < MaxPrevious
        /\ pReturned' = usePreviousReturn(pRef, v)
        /\ pBefore' = pValue
        /\ pValue' = v
        /\ pRenders' = pRenders + 1
        /\ pPhase' = "rendered"
        /\ UNCHANGED <<pRef, pDeps>>
        /\ UNCHANGED otherThanPrevious

\* React runs the effects of the committed render.
PEffect ==
    /\ pPhase = "rendered"
    /\ pRef' = usePreviousEffect(pRef, pDeps, pValue)
    /\ pDeps' = <<pValue>>
    /\ pPhase' = "idle"
    /\ UNCHANGED <<pValue, pReturned, pBefore, pRenders>>
    /\ UNCHANGED otherThanPrevious

NextPrevious == PRender \/ PEffect

(***************************************************************************)
(* todoState = atomFamily({ key, default }) and the Todo component         *)
(* (README.md 1487-1511). Recoil keeps one atom per parameter; an atom     *)
(* that was never set reads as its default.                                *)
(***************************************************************************)

TodoIds == {1, 2, 3}
Texts == {"", "a", "b"}

\* No value: an atom that was never set, a Todo that is not mounted.
Unset == [id |-> 0, text |-> "", completed |-> FALSE]

\* default: (id) => ({ id, text: '', completed: false }).
todoStateDefault(id) == [id |-> id, text |-> "", completed |-> FALSE]

\* Reading todoState(id).
todoStateGet(store, id) ==
    IF store[id] = Unset THEN todoStateDefault(id) ELSE store[id]

\* A mutant of todoStateSet: one atom for all ids.
todoStateSetShared(store, id, value) == [j \in TodoIds |-> value]

\* Setting todoState(id).
todoStateSet(store, id, value) == [store EXCEPT ![id] = value]

\* onChange of Todo: setTodo({ ...todo, text: e.target.value }).
todoOnChange(todo, text) == [todo EXCEPT !.text = text]

InitAtoms ==
    /\ aStore = [id \in TodoIds |-> Unset]
    /\ aTodo = [id \in TodoIds |-> Unset]
    /\ aLastSet = 0

\* <Todo id={id} /> mounts: useRecoilState(todoState(id)).
AMount ==
    \E id \in TodoIds :
        /\ aTodo[id] = Unset
        /\ aTodo' = [aTodo EXCEPT ![id] = todoStateGet(aStore, id)]
        /\ UNCHANGED <<aStore, aLastSet>>
        /\ UNCHANGED otherThanAtoms

\* The user edits the input of <Todo id>: onChange sets the atom, and Recoil
\* renders the mounted Todos again with the value of their atom.
AChange ==
    \E id \in TodoIds, text \in Texts :
        /\ aTodo[id] # Unset
        /\ text # aTodo[id].text
        /\ LET store == todoStateSet(aStore, id, todoOnChange(aTodo[id], text))
           IN  /\ aStore' = store
               /\ aTodo' = [j \in TodoIds |->
                               IF aTodo[j] = Unset THEN Unset
                               ELSE todoStateGet(store, j)]
        /\ aLastSet' = id
        /\ UNCHANGED otherThanAtoms

\* <Todo id={id} /> unmounts; its atom keeps its value.
AUnmount ==
    \E id \in TodoIds :
        /\ aTodo[id] # Unset
        /\ aTodo' = [aTodo EXCEPT ![id] = Unset]
        /\ UNCHANGED <<aStore, aLastSet>>
        /\ UNCHANGED otherThanAtoms

NextAtoms == AMount \/ AChange \/ AUnmount

(***************************************************************************)
(* useCounter(initialValue) (README.md 1333-1341, childrenProps.jsx        *)
(* 742-750). setCount queues an update, an updater function or a value;    *)
(* React applies the queue in order when it renders the component next.    *)
(***************************************************************************)

\* Cap on the number of calls of increment, decrement and reset.
MaxCalls == 4

InitialValues == {0, 5}
CounterCalls == {"increment", "decrement", "reset"}

\* A mutant of increment: setCount(count + 1) with the count of the render.
incrementFromRender(count, initialValue) == [fn |-> "set", arg |-> count + 1]

\* increment = () => setCount(c => c + 1): the update it queues; count and
\* initialValue are those of the render that made the closure.
increment(count, initialValue) == [fn |-> "add", arg |-> 1]

\* decrement = () => setCount(c => c - 1).
decrement(count, initialValue) == [fn |-> "add", arg |-> -1]

\* reset = () => setCount(initialValue).
reset(count, initialValue) == [fn |-> "set", arg |-> initialValue]

\* React applying one queued update to the state.
applyUpdate(c, update) ==
    IF update.fn = "add" THEN c + update.arg ELSE update.arg

\* React applying the queue, oldest update first.
RECURSIVE processQueue(_, _)
processQueue(c, queue) ==
    IF queue = <<>> THEN c
    ELSE processQueue(applyUpdate(c, Head(queue)), Tail(queue))

InitUseCounter ==
    /\ uPhase = "unmounted"
    /\ uInitial = 0
    /\ uCount = 0
    /\ uQueue = <<>>
    /\ uLog = <<>>
    /\ uBatch = 0

\* The component mounts: useState(initialValue).
UMount ==
    \E i \in InitialValues :
        /\ uPhase = "unmounted"
        /\ uPhase' = "mounted"
        /\ uInitial' = i
        /\ uCount' = i
        /\ UNCHANGED <<uQueue, uLog, uBatch>>
        /\ UNCHANGED otherThanUseCounter

\* One of the functions the hook returned at the latest render is called.
UCall ==
    \E call \in CounterCalls :
        /\ uPhase = "mounted"
        /\ Len(uLog) < MaxCalls
        /\ uQueue' = Append(uQueue,
                            CASE call = "increment" -> increment(uCount, uInitial)
                              [] call = "decrement" -> decrement(uCount, uInitial)
                              [] OTHER -> reset(uCount, uInitial))
        /\ uLog' = Append(uLog, call)
        /\ UNCHANGED <<uPhase, uInitial, uCount, uBatch>>
        /\ UNCHANGED otherThanUseCounter

\* React renders the component: the queued updates are applied.
URender ==
    /\ uPhase = "mounted"
    /\ uQueue # <<>>
    /\ uCount' = processQueue(uCount, uQueue)
    /\ uQueue' = <<>>
    /\ uBatch' = Len(uQueue)
    /\ UNCHANGED <<uPhase, uInitial, uLog>>
    /\ UNCHANGED otherThanUseCounter

NextUseCounter == UMount \/ UCall \/ URender

(***************************************************************************)
(* The debounce demo (src/unnamed/part_002): App keeps inputValue, calls   *)
(* useDebounce(inputValue, 200) and has an effect that depends on the      *)
(* debounced value. The hook it imports is the useDebounce modelled above. *)
(* The clock counts milliseconds and advances in steps; a timeout that is  *)
(* due runs at that time or later.                                         *)
(***************************************************************************)

\* useDebounce(inputValue, 200).
DemoDelay == 200

\* The clock stops here.
DemoMaxTime == 600
\* Cap on the number of changes of the input.
MaxInputs == 3

\* The steps of the clock, shorter than the delay and as long as it.
ClockSteps == {50, 200}

\* A mutant of expensiveEffect: an effect without a dependency list.
expensiveEffectEveryRender(runs, before, after) == runs + 1

\* useEffect(() => { console.log("Exensive Oprations"); }, [useDebouncedValue]):
\* the number of runs after a render whose dependency list is after, before
\* being the list of the render before it (<<>> on the first render).
expensiveEffect(runs, before, after) ==
    IF before = after THEN runs ELSE runs + 1

InitDemo ==
    /\ xPhase = "init"
    /\ inputValue = ""
    /\ xDebounced = useDebounceState("")
    /\ xTimers = {}
    /\ xCleanup = 0
    /\ xNextId = 1
    /\ xNow = 0
    /\ xRuns = 0
    /\ xSince = 0
    /\ xRunsThen = 0

\* The effects of the first render run: the hook's, then App's.
XMount ==
    /\ xPhase = "init"
    /\ xPhase' = "mounted"
    /\ xTimers' = xTimers \cup {debounceEffect(inputValue, DemoDelay, xNextId, xNow)}
    /\ xCleanup' = xNextId
    /\ xNextId' = xNextId + 1
    /\ xRuns' = expensiveEffect(xRuns, <<>>, <<xDebounced>>)
    /\ UNCHANGED <<inputValue, xDebounced, xNow, xSince, xRunsThen>>
    /\ UNCHANGED otherThanDemo

\* change(e): setInputValue(e.target.value), and the render that follows:
\* the hook's effect is cleaned up and runs again, App's effect sees the
\* debounced value of the render before.
XChange ==
    \E v \in DValues :
        /\ xPhase = "mounted"
        /\ v # inputValue
        /\ xNextId <= MaxInputs + 1
        /\ inputValue' = v
        /\ xTimers' = debounceCleanup(xTimers, xCleanup)
                        \cup {debounceEffect(v, DemoDelay, xNextId, xNow)}
        /\ xCleanup' = xNextId
        /\ xNextId' = xNextId + 1
        /\ xRuns' = expensiveEffect(xRuns, <<xDebounced>>, <<xDebounced>>)
        /\ xSince' = xNow
        /\ xRunsThen' = xRuns
        /\ UNCHANGED <<xPhase, xDebounced, xNow>>
        /\ UNCHANGED otherThanDemo

\* A pending timeout that is due runs its callback; when that changes the
\* debounced value App renders again and its effects run.
XTimerFire ==
    \E t \in xTimers :
        /\ xNow >= t.due
        /\ xTimers' = xTimers \ {t}
        /\ xDebounced' = debounceCallback(xPhase, xDebounced, t)
        /\ xRuns' = IF xDebounced' = xDebounced THEN xRuns
                    ELSE expensiveEffect(xRuns, <<xDebounced>>, <<xDebounced'>>)
        /\ UNCHANGED <<xPhase, inputValue, xCleanup, xNextId, xNow, xSince,
                       xRunsThen>>
        /\ UNCHANGED otherThanDemo

XTick ==
    \E step \in ClockSteps :
        /\ xNow + step <= DemoMaxTime
        /\ xNow' = xNow + step
        /\ UNCHANGED <<xPhase, inputValue, xDebounced, xTimers, xCleanup,
                       xNextId, xRuns, xSince, xRunsThen>>
        /\ UNCHANGED otherThanDemo

NextDemo == XMount \/ XChange \/ XTimerFire \/ XTick

(***************************************************************************)
(* The modal of the children-props demo (childrenProps.jsx 21-55,          *)
(* 103-182): App holds isModalOpen; Modal renders nothing when it is       *)
(* false. The x button and 'Close Modal' are part of what Modal renders.   *)
(***************************************************************************)

\* Cap on the number of clicks.
MaxModalClicks == 4

\* The buttons of App, and those inside the modal.
PageButtons == {"Open Modal", "Secondary Button", "Success Button"}
ModalButtons == {"x", "Close Modal"}

\* A mutant of Modal: the early return is missing.
ModalIgnoresIsOpen(isOpen) == "modal"

\* function Modal({ isOpen, onClose, children }): if (!isOpen) return null.
Modal(isOpen) == IF ~isOpen THEN "null" ELSE "modal"

\* The onClick of a button, applied to isModalOpen: setIsModalOpen(true) for
\* 'Open Modal', setIsModalOpen(false) for onClose and 'Close Modal', no
\* handler for the other two.
buttonOnClick(button, isOpen) ==
    CASE button = "Open Modal" -> TRUE
      [] button \in ModalButtons -> FALSE
      [] OTHER -> isOpen

InitModal ==
    /\ isModalOpen = FALSE
    /\ mShown = Modal(FALSE)
    /\ mClicks = <<>>

\* A button that is on the page is clicked, and App renders again.
MClick ==
    \E button \in PageButtons \cup ModalButtons :
        /\ Len(mClicks) < MaxModalClicks
        /\ button \in ModalButtons => mShown = "modal"
        /\ isModalOpen' = buttonOnClick(button, isModalOpen)
        /\ mShown' = Modal(isModalOpen')
        /\ mClicks' = Append(mClicks, button)
        /\ UNCHANGED otherThanModal

NextModal == MClick

(***************************************************************************)
(* useFetch(url) with refetch (README.md 2056-2082): fetchData is an async *)
(* function memoised on [url]; the effect calls it on mount and when url   *)
(* changes, and the hook returns it as refetch. Nothing cancels a request; *)
(* the state updates after an await are applied together.                  *)
(***************************************************************************)

\* Cap on the number of requests the hook starts.
MaxFetches == 3

\* fetchData up to its first await: setLoading(true).
fetchDataStart(st) == [st EXCEPT !.loading = TRUE]

\* try: setData(result); setError(null); finally: setLoading(false).
fetchDataFulfilled(st, result) ==
    [st EXCEPT !.data = result, !.error = Null, !.loading = FALSE]

\* A mutant of fetchDataRejected: the catch block clears data as well.
fetchDataRejectedClearsData(st, err) ==
    [st EXCEPT !.data = Null, !.error = err, !.loading = FALSE]

\* catch (err): setError(err); finally: setLoading(false).
fetchDataRejected(st, err) == [st EXCEPT !.error = err, !.loading = FALSE]

InitRefetch ==
    /\ rPhase = "init"
    /\ rUrl = "posts/1"
    /\ rState = useFetchState
    /\ rInflight = {}
    /\ rNextId = 1
    /\ rSettled = NoneSettled
    /\ rRefetches = 0

\* The effect of the first render calls fetchData.
RMount ==
    /\ rPhase = "init"
    /\ rPhase' = "mounted"
    /\ rState' = fetchDataStart(rState)
    /\ rInflight' = rInflight \cup {[id |-> rNextId, url |-> rUrl,
                                     by |-> "effect"]}
    /\ rNextId' = rNextId + 1
    /\ UNCHANGED <<rUrl, rSettled, rRefetches>>
    /\ UNCHANGED otherThanRefetch

\* A render with another url: useCallback makes a new fetchData, so the
\* effect runs again and calls it.
RChangeUrl ==
    \E u \in Urls :
        /\ rPhase = "mounted"
        /\ u # rUrl
        /\ rNextId <= MaxFetches
        /\ rUrl' = u
        /\ rState' = fetchDataStart(rState)
        /\ rInflight' = rInflight \cup {[id |-> rNextId, url |-> u,
                                         by |-> "effect"]}
        /\ rNextId' = rNextId + 1
        /\ UNCHANGED <<rPhase, rSettled, rRefetches>>
        /\ UNCHANGED otherThanRefetch

\* The component calls the refetch of the latest render.
RRefetch ==
    /\ rPhase = "mounted"
    /\ rNextId <= MaxFetches
    /\ rState' = fetchDataStart(rState)
    /\ rInflight' = rInflight \cup {[id |-> rNextId, url |-> rUrl,
                                     by |-> "refetch"]}
    /\ rNextId' = rNextId + 1
    /\ rRefetches' = rRefetches + 1
    /\ UNCHANGED <<rPhase, rUrl, rSettled>>
    /\ UNCHANGED otherThanRefetch

\* A request is fulfilled: the response arrived and parsed.
RResolve ==
    \E r \in rInflight :
        /\ rState' = fetchDataFulfilled(rState, Response(r.url))
        /\ rInflight' = rInflight \ {r}
        /\ rSettled' = [id |-> r.id, url |-> r.url, ok |-> TRUE]
        /\ UNCHANGED <<rPhase, rUrl, rNextId, rRefetches>>
        /\ UNCHANGED otherThanRefetch

\* A request is rejected: the network failed or the body did not parse.
RReject ==
    \E r \in rInflight :
        /\ rState' = fetchDataRejected(rState, Failure(r.url))
        /\ rInflight' = rInflight \ {r}
        /\ rSettled' = [id |-> r.id, url |-> r.url, ok |-> FALSE]
        /\ UNCHANGED <<rPhase, rUrl, rNextId, rRefetches>>
        /\ UNCHANGED otherThanRefetch

NextRefetch == RMount \/ RChangeUrl \/ RRefetch \/ RResolve \/ RReject

(***************************************************************************)
(* The todo app with DOM (README.md 832-864): addTodo, render, deleteTodo  *)
(* over the array todos. A text is a sequence of pieces, each a run of     *)
(* characters or a tag; render writes the text into innerHTML, where the   *)
(* browser parses it.                                                      *)
(***************************************************************************)

\* Cap on the length of todos, and where the clock stops.
MaxAdds == 3
MaxClock == 2

HtmlTags == {"<b>", "</b>"}

\* What the user can type into the input.
DomTexts == {<<>>, <<"milk">>, <<"<b>", "milk", "</b>">>}

\* The text a span shows whose innerHTML was set to a text: the parser
\* makes elements of the tags, the characters between them are shown.
innerHTMLText(text) == SelectSeq(text, LAMBDA piece : piece \notin HtmlTags)

\* addTodo(): todos.push({ id: Date.now(), text: input.value, completed:
\* false }); input.value = ''.
addTodo(todos, input, t) ==
    [todos |-> Append(todos, [id |-> t, text |-> input, completed |-> FALSE]),
     input |-> <<>>]

\* render(): one div per todo, in the order of the array.
render(todos) ==
    [i \in DOMAIN todos |-> [span |-> innerHTMLText(todos[i].text),
                              deletes |-> todos[i].id]]

\* deleteTodo(id): todos = todos.filter(todo => todo.id !== id).
deleteTodo(todos, id) == SelectSeq(todos, LAMBDA todo : todo.id # id)

InitDom ==
    /\ domTodos = <<>>
    /\ domInput = <<>>
    /\ domList = <<>>
    /\ domNow = 0
    /\ domLast = [op |-> "none", id |-> 0]

\* The user edits the input.
DomType ==
    \E text \in DomTexts :
        /\ text # domInput
        /\ domInput' = text
        /\ UNCHANGED <<domTodos, domList, domNow, domLast>>
        /\ UNCHANGED otherThanDom

\* addTodo() is called (the Add button, or a script).
DomAdd ==
    /\ Len(domTodos) < MaxAdds
    /\ LET r == addTodo(domTodos, domInput, domNow)
       IN  /\ domTodos' = r.todos
           /\ domInput' = r.input
           /\ domList' = render(r.todos)
    /\ domLast' = [op |-> "addTodo", id |-> domNow]
    /\ UNCHANGED domNow
    /\ UNCHANGED otherThanDom

\* A Delete button of the rendered list is clicked.
DomDelete ==
    \E i \in DOMAIN domList :
        /\ domTodos' = deleteTodo(domTodos, domList[i].deletes)
        /\ domList' = render(domTodos')
        /\ domLast' = [op |-> "deleteTodo", id |-> domList[i].deletes]
        /\ UNCHANGED <<domInput, domNow>>
        /\ UNCHANGED otherThanDom

\* A millisecond passes.
DomTick ==
    /\ domNow < MaxClock
    /\ domNow' = domNow + 1
    /\ UNCHANGED <<domTodos, domInput, domList, domLast>>
    /\ UNCHANGED otherThanDom

NextDom == DomType \/ DomAdd \/ DomDelete \/ DomTick

(***************************************************************************)
(* The backend of the React todo app (README.md 998-1023): GET /todos and  *)
(* POST /todos over the array todos. res.json sends JSON, in which a       *)
(* property whose value is undefined is left out.                          *)
(***************************************************************************)

\* Cap on the number of POST /todos requests.
MaxPosts == 3

\* req.body.text: a string, or undefined when the body has no text.
PostedTexts == {"milk", "eggs", Undefined}

\* JSON.stringify of a todo, as the client parses it: text is <<>> when
\* the property is left out.
jsonTodo(todo) ==
    [id |-> todo.id, completed |-> todo.completed,
     text |-> IF todo.text = Undefined THEN <<>> ELSE <<todo.text>>]

\* res.json(todos).
resJson(todos) == [i \in DOMAIN todos |-> jsonTodo(todos[i])]

\* app.get('/todos').
getTodos(todos) == resJson(todos)

\* A mutant of postTodos: the new todo is put in front (unshift).
postTodosInFront(todos, text, t) ==
    LET todo == [id |-> t, text |-> text, completed |-> FALSE]
    IN  [todos |-> <<todo>> \o todos, resp |-> <<jsonTodo(todo)>>]

\* app.post('/todos'); the body of the response is the one todo.
postTodos(todos, text, t) ==
    LET todo == [id |-> t, text |-> text, completed |-> FALSE]
    IN  [todos |-> Append(todos, todo), resp |-> <<jsonTodo(todo)>>]

InitServer ==
    /\ srvTodos = <<>>
    /\ srvReq = "none"
    /\ srvResp = <<>>
    /\ srvNow = 0
    /\ srvPosted = <<>>

SrvGet ==
    /\ srvReq' = "GET /todos"
    /\ srvResp' = getTodos(srvTodos)
    /\ UNCHANGED <<srvTodos, srvNow, srvPosted>>
    /\ UNCHANGED otherThanServer

SrvPost ==
    \E text \in PostedTexts :
        /\ Len(srvPosted) < MaxPosts
        /\ LET r == postTodos(srvTodos, text, srvNow)
           IN  /\ srvTodos' = r.todos
               /\ srvResp' = r.resp
        /\ srvReq' = "POST /todos"
        /\ srvPosted' = Append(srvPosted, text)
        /\ UNCHANGED srvNow
        /\ UNCHANGED otherThanServer

\* A millisecond passes.
SrvTick ==
    /\ srvNow < MaxClock
    /\ srvNow' = srvNow + 1
    /\ UNCHANGED <<srvTodos, srvReq, srvResp, srvPosted>>
    /\ UNCHANGED otherThanServer

NextServer == SrvGet \/ SrvPost \/ SrvTick

(***************************************************************************)
(* The post viewer (src/unnamed/part_001): App keeps currentPost, passes   *)
(* the url of that post to useFetch and renders the loading message or     *)
(* the post with its three buttons. The hook it imports, ./hooks/useFetch, *)
(* is not among the sources; it is taken to behave as the useFetch         *)
(* modelled above, returning its data as finalData.                        *)
(***************************************************************************)

\* Cap on the number of requests the viewer starts.
MaxViews == 5

Posts == {1, 2, 3}

\* "https://jsonplaceholder.typicode.com/posts/" + currentPost, as the
\* path of the url.
PostUrl(post) ==
    CASE post = 1 -> "posts/1"
      [] post = 2 -> "posts/2"
      [] OTHER -> "posts/3"

\* What useFetch of ./hooks/useFetch returns for the state of the hook.
hooksUseFetch(st) == [finalData |-> st.data, loading |-> st.loading]

\* A mutant of AppRender: no early return while loading.
AppRenderAlwaysPost(hook) == "post"

\* What App renders: if (loading) return <div>Loading...</div>, else the
\* title, the buttons and the data.
AppRender(hook) == IF hook.loading THEN "Loading..." ELSE "post"

InitViewer ==
    /\ vPhase = "init"
    /\ currentPost = 1
    /\ vUrl = PostUrl(1)
    /\ vState = useFetchState
    /\ vShown = AppRender(hooksUseFetch(useFetchState))
    /\ vInflight = {}
    /\ vNextId = 1

\* The effect of the first render starts the request.
VMount ==
    /\ vPhase = "init"
    /\ vPhase' = "mounted"
    /\ vState' = fetchEffect(vState)
    /\ vShown' = AppRender(hooksUseFetch(vState'))
    /\ vInflight' = vInflight \cup {[id |-> vNextId, url |-> vUrl]}
    /\ vNextId' = vNextId + 1
    /\ UNCHANGED <<currentPost, vUrl>>
    /\ UNCHANGED otherThanViewer

\* A click on one of the buttons, which are there when App rendered the
\* post: setCurrentPost(post); with another post App renders again, passes
\* the new url and the hook's effect starts a request.
VClick ==
    \E post \in Posts :
        /\ vPhase = "mounted"
        /\ vShown = "post"
        /\ vNextId <= MaxViews
        /\ currentPost' = post
        /\ vUrl' = PostUrl(post)
        /\ IF post = currentPost
           THEN UNCHANGED <<vState, vShown, vInflight, vNextId>>
           ELSE /\ vState' = fetchEffect(vState)
                /\ vShown' = AppRender(hooksUseFetch(vState'))
                /\ vInflight' = fetchCleanup(vInflight)
                                  \cup {[id |-> vNextId, url |-> vUrl']}
                /\ vNextId' = vNextId + 1
        /\ UNCHANGED vPhase
        /\ UNCHANGED otherThanViewer

\* A request is fulfilled.
VResolve ==
    \E r \in vInflight :
        /\ vState' = onFulfilled(vState, Response(r.url))
        /\ vShown' = AppRender(hooksUseFetch(vState'))
        /\ vInflight' = vInflight \ {r}
        /\ UNCHANGED <<vPhase, currentPost, vUrl, vNextId>>
        /\ UNCHANGED otherThanViewer

\* A request is rejected.
VReject ==
    \E r \in vInflight :
        /\ vState' = onRejected(vState, Failure(r.url))
        /\ vShown' = AppRender(hooksUseFetch(vState'))
        /\ vInflight' = vInflight \ {r}
        /\ UNCHANGED <<vPhase, currentPost, vUrl, vNextId>>
        /\ UNCHANGED otherThanViewer

NextViewer == VMount \/ VClick \/ VResolve \/ VReject

(***************************************************************************)
(* TodoApp, the frontend of the backend above: the effect of the first     *)
(* render GETs /todos and sets todos from the response; addTodo POSTs the  *)
(* input and, when the response is there, sets todos to the todos of the   *)
(* render the button was clicked in, followed by the new todo. A request   *)
(* and its response travel on their own and the server handles one         *)
(* request at a time; every setState is followed by a render, so a click   *)
(* sees the todos and the input of the latest state.                       *)
(***************************************************************************)

\* Cap on the number of addTodo calls.
MaxAddCalls == 2

\* What the user types into the input.
TodoTexts == {"milk", "eggs"}

\* addTodo after its awaits: setTodos([...todos, newTodo]); setInput('');
\* todos is the array of the render that created this addTodo.
addTodoDone(closure, newTodo) ==
    [todos |-> Append(closure, newTodo), input |-> ""]

InitTodoApp ==
    /\ taPhase = "init"
    /\ taTodos = <<>>
    /\ taInput = ""
    /\ taRequests = {}
    /\ taResponses = {}
    /\ taServer = <<>>
    /\ taNow = 0
    /\ taNextId = 1

\* The effect of the first render: fetch('http://localhost:3000/todos').
TaMount ==
    /\ taPhase = "init"
    /\ taPhase' = "mounted"
    /\ taRequests' = taRequests \cup
          {[id |-> taNextId, op |-> "GET", text |-> "", closure |-> <<>>]}
    /\ taNextId' = taNextId + 1
    /\ UNCHANGED <<taTodos, taInput, taResponses, taServer, taNow>>
    /\ UNCHANGED otherThanTodoApp

\* onChange of the input: setInput(e.target.value).
TaType ==
    \E text \in TodoTexts :
        /\ taPhase = "mounted"
        /\ taInput' = text
        /\ UNCHANGED <<taPhase, taTodos, taRequests, taResponses, taServer,
                       taNow, taNextId>>
        /\ UNCHANGED otherThanTodoApp

\* A click on Add: addTodo runs up to its first await, the POST is sent.
TaAddTodo ==
    /\ taPhase = "mounted"
    /\ taNextId <= MaxAddCalls + 1
    /\ taRequests' = taRequests \cup
          {[id |-> taNextId, op |-> "POST", text |-> taInput,
            closure |-> taTodos]}
    /\ taNextId' = taNextId + 1
    /\ UNCHANGED <<taPhase, taTodos, taInput, taResponses, taServer, taNow>>
    /\ UNCHANGED otherThanTodoApp

\* The server handles a request and sends the response.
TaServe ==
    \E r \in taRequests :
        /\ taRequests' = taRequests \ {r}
        /\ IF r.op = "GET"
           THEN /\ taResponses' = taResponses \cup
                      {[id |-> r.id, op |-> r.op, body |-> getTodos(taServer),
                        closure |-> r.closure]}
                /\ UNCHANGED taServer
           ELSE LET p == postTodos(taServer, r.text, taNow)
                IN  /\ taServer' = p.todos
                    /\ taResponses' = taResponses \cup
                          {[id |-> r.id, op |-> r.op, body |-> p.resp,
                            closure |-> r.closure]}
        /\ UNCHANGED <<taPhase, taTodos, taInput, taNow, taNextId>>
        /\ UNCHANGED otherThanTodoApp

\* A response arrives and is parsed: .then(setTodos) of the effect, or the
\* rest of addTodo.
TaReceive ==
    \E m \in taResponses :
        /\ taResponses' = taResponses \ {m}
        /\ IF m.op = "GET"
           THEN /\ taTodos' = m.body
                /\ UNCHANGED taInput
           ELSE LET d == addTodoDone(m.closure, m.body[1])
                IN  /\ taTodos' = d.todos
                    /\ taInput' = d.input
        /\ UNCHANGED <<taPhase, taRequests, taServer, taNow, taNextId>>
        /\ UNCHANGED otherThanTodoApp

\* A millisecond passes on the server.
TaTick ==
    /\ taNow < MaxClock
    /\ taNow' = taNow + 1
    /\ UNCHANGED <<taPhase, taTodos, taInput, taRequests, taResponses,
                   taServer, taNextId>>
    /\ UNCHANGED otherThanTodoApp

NextTodoApp == TaMount \/ TaType \/ TaAddTodo \/ TaServe \/ TaReceive \/ TaTick

(***************************************************************************)
(* The specifications. An example that a specification does not run is     *)
(* parked in one of its initial states.                                    *)
(***************************************************************************)

ParkDebounce == InitDebounce /\ dValue = "" /\ dDelay = 1

Init ==
    /\ InitAuth
    /\ InitDebounce
    /\ InitBoundary
    /\ InitCounters
    /\ InitFetch
    /\ InitBcrypt
    /\ InitJwt
    /\ InitTimer
    /\ InitPrevious
    /\ InitAtoms
    /\ InitUseCounter
    /\ InitDemo
    /\ InitModal
    /\ InitRefetch
    /\ InitDom
    /\ InitServer
    /\ InitViewer
    /\ InitTodoApp

\* The initial state with useDebounce called with "" and a delay of 1.
InitParked == Init /\ ParkDebounce

SpecAuth ==
    /\ InitParked
    /\ [][NextAuth]_vars

SpecDebounce == Init /\ [][NextDebounce]_vars

\* The browser runs a due timeout, the clock advances and React runs the
\* effect of a committed render.
SpecDebounceFair ==
    SpecDebounce /\ WF_vars(DTimerFire) /\ WF_vars(DTick) /\ WF_vars(DMount)

SpecBoundary ==
    /\ InitParked
    /\ [][NextBoundary]_vars

SpecCounters ==
    /\ InitParked
    /\ [][NextCounters]_vars

SpecFetch ==
    /\ InitParked
    /\ [][NextFetch]_vars

\* React runs the effect of a committed render, and every request settles.
SpecFetchFair == SpecFetch /\ WF_vars(FMount) /\ WF_vars(FSettle)

SpecBcrypt ==
    /\ InitParked
    /\ [][NextBcrypt]_vars

SpecJwt ==
    /\ InitParked
    /\ [][NextJwt]_vars

\* Express runs the middleware and the handler of a request it has taken.
SpecJwtFair == SpecJwt /\ WF_vars(JMiddleware) /\ WF_vars(JHandler)

SpecTimer ==
    /\ InitParked
    /\ [][NextTimer]_vars

SpecPrevious ==
    /\ InitParked
    /\ [][NextPrevious]_vars

SpecAtoms ==
    /\ InitParked
    /\ [][NextAtoms]_vars

SpecUseCounter ==
    /\ InitParked
    /\ [][NextUseCounter]_vars

SpecDemo ==
    /\ InitParked
    /\ [][NextDemo]_vars

SpecModal ==
    /\ InitParked
    /\ [][NextModal]_vars

SpecRefetch ==
    /\ InitParked
    /\ [][NextRefetch]_vars

SpecDom ==
    /\ InitParked
    /\ [][NextDom]_vars

SpecServer ==
    /\ InitParked
    /\ [][NextServer]_vars

SpecViewer ==
    /\ InitParked
    /\ [][NextViewer]_vars

SpecTodoApp ==
    /\ InitParked
    /\ [][NextTodoApp]_vars

(***************************************************************************)
(* Properties of the token-based authentication server (SpecAuth).         *)
(***************************************************************************)

\* C1: GET /me answers with a username only when the request carries a token
\* header whose value a previous successful /signin issued, and the username
\* is that of a user who signed in and was issued that token; a request
\* without a token header never gets a username.
\* Violated: a user who has not signed in has no token property, and a
\* request without the header compares undefined === undefined.
C1_MeOnlyForIssuedToken ==
    (req.op = "me" /\ resp.kind = "username")
        => /\ req.token # Undefined
           /\ <<req.token, resp.value>> \in issued

\* C2: a /signin whose username and password match no stored user is answered
\* with 403, issues no token and leaves the users array unchanged.
C2_FailedSigninChangesNothing ==
    [][(/\ req'.op = "signin"
        /\ \A i \in DOMAIN users :
              ~(users[i].username = req'.username
                /\ users[i].password = req'.password))
       => (/\ resp'.status = 403
           /\ resp'.kind = "message"
           /\ users' = users
           /\ issued' = issued)]_vars

\* C2 witness: a /signin for a stored username with another password was
\* refused.
C2_Witness ==
    /\ req.op = "signin"
    /\ resp.status = 403
    /\ \E i \in DOMAIN users :
          users[i].username = req.username /\ users[i].password # req.password

TokensAreOnlyOverwritten ==
    /\ Len(users') >= Len(users)
    /\ \A i \in DOMAIN users :
          /\ users[i].token # Undefined => users'[i].token # Undefined
          /\ users'[i].token # users[i].token =>
                (req'.op = "signin" /\ resp'.kind = "token"
                 /\ lastSignin'.index = i)

C4_DebounceWritesOnlySettledValue ==
    /\ Cardinality(dTimers) <= 1
    /\ \A t \in dTimers : t.id = dCleanup /\ t.val = dValue
    /\ dLast.fired =>
          /\ dLast.val = dLast.cur
          /\ dLast.at - dLast.since >= dLast.delay

\* C4 witness: the value was replaced twice after the mount, so that timers
\* were cleared, and the timer of the last value has run and written it.
C4_Witness ==
    /\ dLast.fired
    /\ dNextId > 3
    /\ dLast.since > 0
    /\ dDebounced = dValue
    /\ dDebounced # useDebounceState("")

\* C5: if value stops changing while the component stays mounted (the delay
\* staying as it is, and a due timer running eventually), debouncedValue
\* eventually equals the last value for good; and once debouncedValue equals
\* value it stays equal until value changes.
C5_DebouncedEventuallyFollows ==
    /\ \A v \in DValues, d \in Delays :
          <>[](dPhase = "mounted" /\ dValue = v /\ dDelay = d)
              => <>[](dDebounced = v)
    /\ [][(dPhase = "mounted" /\ dDebounced = dValue /\ dValue' = dValue)
            => dDebounced' = dValue]_vars

\* C5 witness: debouncedValue has caught up with a value set after the mount
\* and no timer is pending.
C5_Witness ==
    /\ dPhase = "mounted"
    /\ dLast.fired
    /\ dLast.since > 0
    /\ dDebounced = dValue
    /\ dTimers = {}

(***************************************************************************)
(* Properties of ErrorBoundary and its demo App (SpecBoundary).            *)
(***************************************************************************)

\* C6: a boundary renders its children while hasError is false and the
\* fallback once a child has thrown while rendering; the error is reported
\* through componentDidCatch and does not go above the boundary.
C6_BoundaryRendersFallback ==
    /\ \A i \in Slots :
          Wrapper(i) # 0 =>
             LET b == Wrapper(i)
                 out == IF hasError[b] THEN Fallback ELSE CardOutput(i)
             IN  /\ (ebPc = "idle" /\ ebPasses > 0) => ebDom[i] = out
                 /\ (ebPc \in {"render", "unwind"} /\ ebPos > i) => ebWip[i] = out
                 /\ hasError[b] <=>
                       \/ \E k \in DOMAIN ebLog : ebLog[k].boundary = b
                       \/ \E c \in ebCaught : c.boundary = b
                 /\ ebPc = "idle" => \A c \in ebCaught : c.boundary # b
    /\ ebUncaught # 0 => Wrapper(ebUncaught) = 0

\* C6 witness: the page shows the fallback of a boundary whose child threw and
\* the child of the other boundary, and componentDidCatch has logged the error.
C6_Witness ==
    /\ ebPc = "idle"
    /\ hasError[1] /\ ebDom[1] = Fallback
    /\ ~hasError[2] /\ ebDom[2] = CardOutput(2)
    /\ \E k \in DOMAIN ebLog : ebLog[k] = [boundary |-> 1, error |-> 1]
    /\ ebUncaught = 0

\* C7: in the demo the error of Card1 sets hasError in the boundary around
\* Card1 only: the boundary around Card2 keeps hasError false and the page
\* shows Card 2; Card 3, outside any boundary, is shown whatever the
\* boundaries hold.
C7_DemoBoundariesAreIndependent ==
    ebDemo =>
        /\ ebUncaught = 0 /\ ebPc # "crashed"
        /\ hasError[2] = FALSE
        /\ \A k \in DOMAIN ebLog : ebLog[k] = [boundary |-> 1, error |-> 1]
        /\ (ebPc = "idle" /\ ebPasses > 0) =>
              /\ hasError[1] = TRUE
              /\ ebDom = <<Fallback, "Card 2", "Card 3">>

\* C7 witness: the demo has rendered twice.
C7_Witness ==
    /\ ebDemo
    /\ ebPc = "idle"
    /\ ebPasses >= 2
    /\ hasError = <<TRUE, FALSE>>
    /\ Len(ebLog) = 1

\* C25: once a boundary has caught an error its hasError never returns to
\* false: no step resets it, and in every later pass the boundary renders
\* the fallback, also when its child has been exchanged for one that would
\* not throw.
C25_HasErrorIsNeverReset ==
    /\ [][\A b \in Boundaries : hasError[b] => hasError'[b]]_vars
    /\ [](\A i \in Slots :
            (Wrapper(i) # 0 /\ hasError[Wrapper(i)]) =>
                /\ (ebPc = "idle" /\ ebPasses > 0) => ebDom[i] = Fallback
                /\ (ebPc \in {"render", "unwind"} /\ ebPos > i) => ebWip[i] = Fallback)

\* C25 witness: the child of the first boundary was exchanged for one that
\* does not throw, and the pass after the exchange has rendered the fallback
\* in its place.
C25_Witness ==
    /\ hasError[1]
    /\ ~ebThrows[1]
    /\ ebPc = "render"
    /\ ebPos > 1
    /\ ebWip[1] = Fallback
    /\ Len(ebLog) > 0

(***************************************************************************)
(* Properties of the three counters (SpecCounters).                        *)
(***************************************************************************)

\* C8: starting from 0, after every sequence of increment and decrement
\* clicks with a re-render of each app between clicks, the three apps hold
\* the same count, the number of increment clicks minus the number of
\* decrement clicks, and show it once they have re-rendered.
C8_CountersAgree ==
    cFresh =>
        /\ \A a \in Apps : cStore[a] = cIncs - cDecs
        /\ \A a \in Apps : cShown[a] = cStore[a] => cShown[a] = cIncs - cDecs
        /\ \A a, b \in Apps :
              (cShown[a] = cStore[a] /\ cShown[b] = cStore[b])
                  => cShown[a] = cShown[b]

\* C8 witness: after increments and a decrement, each followed by a
\* re-render, the three apps show the same count.
C8_Witness ==
    /\ cFresh
    /\ cIncs >= 2
    /\ cDecs >= 1
    /\ cShown = cStore
    /\ cShown["props"] = cIncs - cDecs

(***************************************************************************)
(* Properties of useFetch (SpecFetch, SpecFetchFair).                      *)
(***************************************************************************)

C10_RequestsAreNeverCancelled ==
    [][\A r \in fInflight \ fInflight' :
          /\ fSettled'.id = r.id /\ fSettled'.url = r.url
          /\ ~fState'.loading
          /\ fSettled'.ok => fState'.data = Response(r.url)
          /\ ~fSettled'.ok => fState'.error = Failure(r.url)]_vars

\* C10 witness: every request has settled and data holds the response for a
\* url that is not the current one.
C10_Witness ==
    /\ fInflight = {}
    /\ fSettled.ok
    /\ fSettled.url # fUrl
    /\ fState.data = Response(fSettled.url)
    /\ ~fState.loading

\* C26: when the url has changed several times and the requests settle in
\* any order, once every started request has settled data holds the response
\* for the current url (here: in runs where no request failed).
C26_DataIsForTheCurrentUrl ==
    (fPhase = "mounted" /\ fInflight = {} /\ fState.error = Null)
        => fState.data = Response(fUrl)

\* C27: whenever loading is false and error is set, the request that settled
\* last failed: after a success that follows a failure no error is set and
\* DataDisplay shows the data.
C27_ErrorMeansLastRequestFailed ==
    /\ (~fState.loading /\ fState.error # Null) => ~fSettled.ok
    /\ (~fState.loading /\ fSettled.id # 0 /\ fSettled.ok)
            => DataDisplay(fState) = fState.data

(***************************************************************************)
(* Properties of signup and signin with bcrypt (SpecBcrypt).               *)
(***************************************************************************)

\* The part of C11 about what is stored: the password field of every
\* document is the bcrypt hash of the password its /signup was given, never
\* the password itself, and a token is returned only to a request whose
\* username has a document and whose password bcrypt.compare accepts
\* against the hash of that document.
BcryptStoresHashesOnly ==
    /\ Len(bPlain) = Len(bUsers)
    /\ \A i \in DOMAIN bUsers :
          /\ \A p \in BodyPasswords : bUsers[i].password # PlainText(p)
          /\ bPlain[i] \in Passwords
          /\ \E s \in Salts : bUsers[i].password = bcryptHash(bPlain[i], s)
    /\ bResp.kind = "token" =>
          LET i == Find({k \in DOMAIN bUsers :
                            bUsers[k].username = bReq.username})
          IN  /\ bReq.op = "signin"
              /\ i # 0
              /\ bcryptCompare(bReq.password, bUsers[i].password)

\* C11: plain-text passwords are never stored: after any sequence of
\* /signup and /signin requests the password field of every stored user is
\* the bcrypt hash of the password given at signup, and /signin returns a
\* token only when the user exists and bcrypt.compare of the submitted
\* password against the stored hash succeeds; otherwise it answers 403.
\* Violated: a /signin for an existing user whose body has no password makes
\* bcrypt.compare reject, and the handler sends no response at all.
C11_HashedPasswordsAndGuardedSignin ==
    /\ BcryptStoresHashesOnly
    /\ bReq.op = "signin" =>
          \/ bResp.kind = "token"
          \/ bResp.status = 403

\* The User collection without the documents of a username.
WithoutUser(us, username) ==
    SelectSeq(us, LAMBDA doc : doc.username # username)

\* The part of C21 about a wrong password: a /signin with a password that
\* does not get a token is answered as the collection without the user
\* answers it, 403 'Invalid credentials'.
WrongPasswordLooksLikeUnknownUser ==
    (bReq.op = "signin" /\ bReq.password # Undefined /\ bResp.kind # "token")
        => /\ bResp = bcryptSignin(WithoutUser(bUsers, bReq.username),
                                   bReq.username, bReq.password)
           /\ bResp = [status |-> 403, kind |-> "message",
                       value |-> "Invalid credentials"]

\* C21: in the 'Complete Auth System' the response to an unknown username
\* and the response to a known username with a wrong password are
\* identical, so for two user stores that differ only in whether a username
\* exists, a failed /signin produces the same response: the response sent
\* is the one the store without that username sends.
\* Violated: to a body without a password the store without the user
\* answers 403, the store with the user sends nothing (bcrypt.compare
\* rejects).
C21_FailedSigninHidesExistence ==
    (bReq.op = "signin" /\ bResp.kind # "token")
        => bResp = bcryptSignin(WithoutUser(bUsers, bReq.username),
                                bReq.username, bReq.password)

(***************************************************************************)
(* Properties of JWT authentication (SpecJwt, SpecJwtFair).                *)
(***************************************************************************)

\* C12: on a route protected by authenticateJWT the handler runs only after
\* the middleware has called next(); the middleware calls next() exactly
\* when the authorization header is present and jwt.verify succeeds on it
\* with JWT_SECRET; in every other case it answers 401 and the handler
\* never runs; each request gets exactly one response.
C12_HandlerOnlyAfterNext ==
    /\ [][(jPc = "middleware" /\ jPc' # "middleware") =>
            /\ jNext' = 1 <=> /\ jReq.authorization # NoAuthorization
                              /\ jwtVerifies(jReq.authorization, JWT_SECRET)
            /\ jNext' = 1 => (jResps' = <<>> /\ jPc' = "handler")
            /\ jNext' # 1 => /\ jNext' = 0
                             /\ Len(jResps') = 1
                             /\ jResps'[1].status = 401
                             /\ jPc' = "idle"
                             /\ ~jRan']_vars
    /\ [][(jReq'.route = "protected" /\ ~jRan /\ jRan') => jNext = 1]_vars
    /\ [](Len(jResps) <= 1)
    /\ []((jPc = "idle" /\ jReq.route = "protected") =>
             /\ Len(jResps) = 1
             /\ jRan <=> jNext = 1)
    /\ (jPc # "idle") ~> (jPc = "idle" /\ Len(jResps) = 1)

\* C12 witness: a request to /protected with a token of the server went
\* through next() to the handler and got its one response from it.
C12_Witness ==
    /\ jPc = "idle"
    /\ jReq.route = "protected"
    /\ jNext = 1
    /\ jRan
    /\ jResps = <<protected(jReq.authorization.payload)>>

C14_TimerIntervalIsCleared ==
    /\ [](tPhase = "mounted" =>
             /\ Cardinality(tIntervals) = 1
             /\ \A iv \in tIntervals : iv.id = tCleanup /\ iv.inst = tInst)
    /\ [](tPhase = "unmounted" => tIntervals = {})
    /\ [][(tPhase = "mounted" /\ tTicks' = tTicks + 1)
            => seconds' = seconds + 1]_vars
    /\ [][(tInst' = tInst /\ seconds' # seconds)
            => (tPhase = "mounted" /\ tTicks' = tTicks + 1)]_vars
    /\ [][(tPhase = "unmounted" /\ tInst' = tInst) => seconds' = seconds]_vars

\* C14 witness: a second instance of Timer has ticked twice and was
\* unmounted; the interval of neither instance is left.
C14_Witness ==
    /\ tInst = 2
    /\ tPhase = "unmounted"
    /\ seconds = 2
    /\ tTicks > 2
    /\ tIntervals = {}

(***************************************************************************)
(* Properties of usePrevious (SpecPrevious).                               *)
(***************************************************************************)

\* C15: usePrevious(value) returns undefined on the first render, and on
\* every later render the value that was passed on the render before it.
C15_UsePreviousReturnsValueBefore ==
    /\ pRenders = 1 => pReturned = Undefined
    /\ pRenders > 1 => pReturned = pBefore

\* C15 witness: a third render with a new value has returned the value of
\* the second render, which was the value of the first render as well.
C15_Witness ==
    /\ pRenders = 3
    /\ pReturned = "a"
    /\ pBefore = "a"
    /\ pValue = "b"
    /\ pRef = "a"

(***************************************************************************)
(* Properties of the atomFamily todoState (SpecAtoms).                     *)
(***************************************************************************)

\* C16: atomFamily gives every id its own atom: todoState(id) starts as
\* {id, text: '', completed: false}, and setting the todo of one id changes
\* that atom only: the value of todoState(j) for every other id j, and what
\* the Todo of j shows, are as before.
C16_AtomFamilyIsolatesIds ==
    /\ [](\A id \in TodoIds :
             aStore[id] = Unset =>
                 /\ todoStateGet(aStore, id) =
                        [id |-> id, text |-> "", completed |-> FALSE]
                 /\ aTodo[id] \in {Unset, todoStateGet(aStore, id)})
    /\ [][aStore' # aStore =>
            /\ todoStateGet(aStore', aLastSet').id = aLastSet'
            /\ todoStateGet(aStore', aLastSet').text
                  # todoStateGet(aStore, aLastSet').text
            /\ \A j \in TodoIds \ {aLastSet'} :
                  /\ todoStateGet(aStore', j) = todoStateGet(aStore, j)
                  /\ aTodo'[j] = aTodo[j]]_vars

\* C16 witness: the todos of ids 1 and 2 were edited, the todo of id 3 is
\* mounted and still shows its default.
C16_Witness ==
    /\ aStore[1].text = "a"
    /\ aStore[2].text = "b"
    /\ aStore[3] = Unset
    /\ aTodo[3] = [id |-> 3, text |-> "", completed |-> FALSE]
    /\ aLastSet = 2

(***************************************************************************)
(* Properties of useCounter (SpecUseCounter).                              *)
(***************************************************************************)

\* What a sequence of calls makes of a count c when each call acts at once.
RECURSIVE CountAfter(_, _, _)
CountAfter(c, calls, initialValue) ==
    IF calls = <<>> THEN c
    ELSE CountAfter(CASE Head(calls) = "increment" -> c + 1
                      [] Head(calls) = "decrement" -> c - 1
                      [] OTHER -> initialValue,
                    Tail(calls), initialValue)

\* C17: once React has rendered, count is what the calls so far make of
\* initialValue, however many of them were made between two renders: n
\* calls of increment alone have added exactly n, an increment followed by
\* a decrement leaves the count that was there before the two, and reset
\* gives initialValue from any state, once or twice in a row.
C17_UseCounterAlgebra ==
    (uPhase = "mounted" /\ uQueue = <<>>) =>
        /\ uCount = CountAfter(uInitial, uLog, uInitial)
        /\ (\A k \in DOMAIN uLog : uLog[k] = "increment")
              => uCount = uInitial + Len(uLog)
        /\ (/\ Len(uLog) >= 2
            /\ uLog[Len(uLog) - 1] = "increment"
            /\ uLog[Len(uLog)] = "decrement")
              => uCount = CountAfter(uInitial, SubSeq(uLog, 1, Len(uLog) - 2),
                                     uInitial)
        /\ (Len(uLog) >= 1 /\ uLog[Len(uLog)] = "reset") => uCount = uInitial

\* C17 witness: three calls of increment were made before one render, and
\* that render shows initialValue + 3.
C17_Witness ==
    /\ uPhase = "mounted"
    /\ uInitial = 5
    /\ uLog = <<"increment", "increment", "increment">>
    /\ uQueue = <<>>
    /\ uBatch = 3
    /\ uCount = 8

(***************************************************************************)
(* Properties of the debounce demo (SpecDemo).                             *)
(***************************************************************************)

\* C18: in the debounce demo the effect that logs "Exensive Oprations" runs
\* when the debounced value changes: a change of inputValue does not run
\* it, and between two changes of inputValue less than 200 ms apart (the
\* hook has set a timer for every change, so xNextId counts them) it has
\* not run; after the first render it runs only when the input has paused
\* for the delay and the debounced value has changed to the input's value,
\* and then it runs once.
C18_ExpensiveEffectIsDebounced ==
    /\ [][inputValue' # inputValue =>
            /\ xRuns' = xRuns
            /\ (xNextId > 2 /\ xNow - xSince < DemoDelay) => xRuns = xRunsThen]_vars
    /\ [][(xPhase = "mounted" /\ xRuns' # xRuns) =>
            /\ xRuns' = xRuns + 1
            /\ xDebounced' # xDebounced
            /\ xDebounced' = inputValue
            /\ xNow - xSince >= DemoDelay]_vars
    /\ [][xDebounced' # xDebounced => xRuns' = xRuns + 1]_vars

\* C18 witness: the input changed twice within less than 200 ms and then
\* paused; the effect ran once for the two changes (and once on mount).
C18_Witness ==
    /\ xNextId = 4
    /\ xSince = 100
    /\ inputValue = "ab"
    /\ xDebounced = "ab"
    /\ xRuns = 2
    /\ xRunsThen = 1

(***************************************************************************)
(* Properties of the modal of the children-props demo (SpecModal).         *)
(***************************************************************************)

\* The clicks on 'Open Modal', x and 'Close Modal' among the clicks.
ModalClicks ==
    SelectSeq(mClicks, LAMBDA b : b \in {"Open Modal"} \cup ModalButtons)

\* C19: the modal is rendered exactly when isModalOpen is true; it is
\* closed initially; only a click on 'Open Modal' sets isModalOpen to true,
\* a click on x or on 'Close Modal' sets it to false; so after any sequence
\* of clicks the modal is open exactly when the last of these clicks was on
\* 'Open Modal'.
C19_ModalOpenIffLastClickOpened ==
    /\ [](mShown = "modal" <=> isModalOpen)
    /\ [](mClicks = <<>> => ~isModalOpen)
    /\ [][(~isModalOpen /\ isModalOpen')
            => mClicks' = Append(mClicks, "Open Modal")]_vars
    /\ [][\A b \in ModalButtons :
            mClicks' = Append(mClicks, b) => ~isModalOpen']_vars
    /\ [][mClicks' = Append(mClicks, "Open Modal") => isModalOpen']_vars
    /\ [](isModalOpen <=> /\ ModalClicks # <<>>
                          /\ ModalClicks[Len(ModalClicks)] = "Open Modal")

\* C19 witness: the modal was opened, closed with x, opened again and is
\* still shown after a click on a button that has no handler.
C19_Witness ==
    /\ mClicks = <<"Open Modal", "x", "Open Modal", "Secondary Button">>
    /\ isModalOpen
    /\ mShown = "modal"

(***************************************************************************)
(* Properties of useFetch with refetch (SpecRefetch).                      *)
(***************************************************************************)

\* What C20 says of a request that settles: loading is false; after a
\* fulfilled request data is its result and error is null; after a rejected
\* one error is set and data is as before.
RefetchSettles ==
    [][\A r \in rInflight \ rInflight' :
          /\ ~rState'.loading
          /\ rSettled'.id = r.id
          /\ rSettled'.ok => /\ rState'.data = Response(r.url)
                             /\ rState'.error = Null
          /\ ~rSettled'.ok => /\ rState'.error = Failure(r.url)
                              /\ rState'.data = rState.data]_vars

\* What C20 says of a call of refetch: it starts a new request for the
\* current url and sets loading to true.
RefetchStarts ==
    [][rRefetches' # rRefetches =>
          /\ rInflight' = rInflight \cup {[id |-> rNextId, url |-> rUrl,
                                           by |-> "refetch"]}
          /\ rInflight' # rInflight
          /\ rUrl' = rUrl
          /\ rState'.loading]_vars

\* C20, as stated: in useFetch with refetch, whenever a request settles
\* loading is false; after a request that succeeded data is its result and
\* error is null, after a request that failed error is set and data keeps
\* its previous value; calling refetch issues a new request for the
\* current url and sets loading to true until it settles.
\* Violated: a request started earlier that settles while the request of
\* refetch is in flight sets loading to false.
C20_RefetchLoadingUntilItSettles ==
    /\ RefetchSettles
    /\ RefetchStarts
    /\ [](\A r \in rInflight : r.by = "refetch" => rState.loading)

\* C20, amended: as stated, except that loading stays true from the call of
\* refetch until a request in flight settles, the one refetch started or
\* one started before it.
C20_RefetchLoadingUntilSomeRequestSettles ==
    /\ RefetchSettles
    /\ RefetchStarts
    /\ [][(rState.loading /\ ~rState'.loading)
            => (rInflight' # rInflight /\ rInflight' \subseteq rInflight)]_vars

\* C20 witness: the request of a refetch was rejected after the first
\* request had been fulfilled; data is still the result of the first.
C20_Witness ==
    /\ rRefetches = 1
    /\ rInflight = {}
    /\ rSettled = [id |-> 2, url |-> rUrl, ok |-> FALSE]
    /\ rState = [data |-> Response(rUrl), loading |-> FALSE,
                 error |-> Failure(rUrl)]

(***************************************************************************)
(* Properties of the todo app with DOM (SpecDom).                          *)
(***************************************************************************)

\* The part of C22 about the array: addTodo appends one todo with completed
\* false and the input's text and clears the input; deleteTodo(id) removes
\* the todos whose id is id and leaves the others and their order; the list
\* has one entry per todo, in the order of the array.
DomFrame ==
    /\ [][Len(domTodos') > Len(domTodos) =>
            /\ domLast'.op = "addTodo"
            /\ Len(domTodos') = Len(domTodos) + 1
            /\ SubSeq(domTodos', 1, Len(domTodos)) = domTodos
            /\ domTodos'[Len(domTodos')].text = domInput
            /\ ~domTodos'[Len(domTodos')].completed
            /\ domInput' = <<>>]_vars
    /\ [][domTodos' # domTodos /\ domLast'.op = "deleteTodo" =>
            domTodos' = SelectSeq(domTodos,
                                  LAMBDA todo : todo.id # domLast'.id)]_vars
    /\ [](/\ Len(domList) = Len(domTodos)
          /\ \A i \in DOMAIN domTodos : domList[i].deletes = domTodos[i].id)

\* C22: after every addTodo and deleteTodo the rendered list shows exactly
\* the texts of todos in insertion order; addTodo appends one todo with
\* completed false and clears the input, and deleteTodo(id) removes the
\* todos whose id equals id and leaves every other todo and their order
\* unchanged.
\* Violated: render writes the text into innerHTML, so a text with markup
\* is shown without its tags.
C22_ListShowsTheTexts ==
    /\ DomFrame
    /\ [](/\ Len(domList) = Len(domTodos)
          /\ \A i \in DOMAIN domTodos : domList[i].span = domTodos[i].text)

\* C29: after any sequence of addTodo and deleteTodo calls all todos have
\* pairwise distinct ids, so deleteTodo(id) removes exactly one todo.
\* Violated: two calls of addTodo in the same millisecond get the same
\* Date.now(), and deleteTodo of that id removes both todos.
C29_TodoIdsAreDistinct ==
    /\ [](\A i, j \in DOMAIN domTodos : i # j => domTodos[i].id # domTodos[j].id)
    /\ [][domLast'.op = "deleteTodo" /\ domTodos' # domTodos =>
            Len(domTodos') = Len(domTodos) - 1]_vars

(***************************************************************************)
(* Properties of the backend of the React todo app (SpecServer).           *)
(***************************************************************************)

\* C23: after any sequence of requests GET /todos returns every todo an
\* earlier POST /todos created, in creation order, each with completed
\* false and the posted text (no text when none was posted); the todos
\* array only grows, and POST /todos responds with the todo it appended.
C23_GetReturnsEveryPostedTodo ==
    /\ [](srvReq = "GET /todos" =>
             /\ Len(srvResp) = Len(srvPosted)
             /\ \A i \in DOMAIN srvResp :
                   /\ ~srvResp[i].completed
                   /\ srvResp[i].text = IF srvPosted[i] = Undefined THEN <<>>
                                        ELSE <<srvPosted[i]>>)
    /\ [][/\ Len(srvTodos') >= Len(srvTodos)
          /\ SubSeq(srvTodos', 1, Len(srvTodos)) = srvTodos]_vars
    /\ [][srvPosted' # srvPosted =>
            /\ Len(srvTodos') = Len(srvTodos) + 1
            /\ srvResp' = <<jsonTodo(srvTodos'[Len(srvTodos')])>>]_vars

\* C23 witness: GET /todos has returned three todos in the order they were
\* posted, the last two created in the same millisecond.
C23_Witness ==
    /\ srvReq = "GET /todos"
    /\ srvPosted = <<"milk", "eggs", "milk">>
    /\ Len(srvResp) = 3
    /\ srvResp[1].text = <<"milk">>
    /\ srvResp[2].text = <<"eggs">>
    /\ srvResp[2].id = srvResp[3].id

(***************************************************************************)
(* Properties of the post viewer (SpecViewer).                             *)
(***************************************************************************)

\* C24: currentPost starts at 1 and is always one of 1, 2, 3; the url
\* passed to useFetch is always the posts url followed by the current
\* currentPost; while loading is true only the loading message is rendered,
\* so no button changes currentPost while a request is reported as loading.
C24_ViewerGatesButtonsOnLoading ==
    /\ [](vNextId <= 2 => currentPost = 1)
    /\ [](currentPost \in {1, 2, 3})
    /\ [](vUrl = PostUrl(currentPost))
    /\ [](vState.loading => vShown = "Loading...")
    /\ [][currentPost' # currentPost => (~vState.loading /\ vShown = "post")]_vars

\* C24 witness: post 3 was chosen after the first post had loaded; its
\* request is in flight and App shows the loading message.
C24_Witness ==
    /\ currentPost = 3
    /\ vState.data = Response(PostUrl(1))
    /\ vState.loading
    /\ vShown = "Loading..."
    /\ vInflight = {[id |-> 2, url |-> PostUrl(3)]}

(***************************************************************************)
(* Properties of TodoApp (SpecTodoApp).                                    *)
(***************************************************************************)

\* How often a todo occurs in a list.
Occurrences(list, todo) == Cardinality({i \in DOMAIN list : list[i] = todo})

\* C30: for any interleaving of the initial GET /todos and the addTodo
\* calls, also when an addTodo starts before the POST of the one before it
\* has returned, once all requests have completed the displayed list holds
\* every todo the server created, each exactly once.
\* Violated: addTodo appends to the todos of the render it was created in.
C30_ListHoldsEveryServerTodoOnce ==
    (taPhase = "mounted" /\ taRequests = {} /\ taResponses = {})
        => \A i \in DOMAIN taServer :
              Occurrences(taTodos, jsonTodo(taServer[i]))
                  = Occurrences(resJson(taServer), jsonTodo(taServer[i]))

====
